---- MODULE Spec2Model ----
(***************************************************************************)
(* dstore: the type registry (types.SystemRegistry) and the storage engine *)
(* (store.BoltStore) over an ordered byte-keyed transactional engine.      *)
(*                                                                         *)
(* Byte strings are sequences of byte values.  A nilable pointer is a      *)
(* sequence: <<>> is nil; an *Id is <<TypeId, ObjectId>>.                   *)
(***************************************************************************)
EXTENDS Integers, Sequences, FiniteSets, TLC

VARIABLES
    items,          \* r.items: the registered RegistryItems, in registration order
    info,           \* r.info: <<>> (nil) or <<RegistryInfo>>
    typeIdIndex,    \* r.typeIdIndex: TypeId -> position in items (a *RegistryItem)
    typeNameIndex,  \* r.typeNameIndex: TypeName -> position in items
    db,             \* the engine's durable content: bucket name -> (key -> value)
    stamped,        \* history: the identifiers AllocateId stamped on records, in order
    epochStart,     \* history: Len(stamped) when the registry was last loaded or reset
    last,           \* history: the last call, its argument and its result
    mu,             \* r.mu: <<>> (free) or <<c>>, the caller holding the write lock
    pc,             \* for each caller, its position in the call it is making
    loc             \* for each caller, the locals of the call it is making

vars == <<items, info, typeIdIndex, typeNameIndex, db, stamped, epochStart, last,
          mu, pc, loc>>

-----------------------------------------------------------------------------
(* Bounds of the model *)

MaxItems == 2       \* Register calls in one process
MaxIndexDefs == 2   \* Index definitions held by one item
MaxTypeIds == 2     \* type ids handed out over the life of one store
MaxStamps == 2      \* AllocateId calls that stamp a record, over the life of one store
MaxBatch == 2       \* records in one PutAll
MaxCallers == 2     \* goroutines calling into the registry and the store
ByteBits == 2       \* bits of a byte of an encoded number
WordBytes == 2      \* bytes of an encoded int64 or float64
ExpBits == 2        \* exponent bits of a float64
IdBits == 5         \* bits of the int64 of an identifier handed to String and IdFromString
MaxIdTextLen == 4   \* bytes of a string handed to IdFromString

TypeNames == {"A", "B"}
Callers == 1..MaxCallers
PropertyNames == {"Sku", "Tag"}
SkuValues == {<<120>>, <<121>>}
TagValues == {<<122>>}

-----------------------------------------------------------------------------
(* Program constants *)

REGISTRY_INFO_TYPE_ID == 1
REGISTRY_INFO_OBJECT_ID == 1
REGISTRY_ITEM_TYPE_ID == 2
REGISTRY_INFO_TYPE_NAME == "RegistryInfo"
REGISTRY_ITEM_TYPE_NAME == "RegistryItem"
FirstTypeId == 1001
FirstObjectId == 1001
FirstItemObjectId == 1

UniqueIndex == 0
NonUniqueIndex == 1
StringIndex == 0
Int64Index == 1
Float64Index == 2
BoolIndex == 3
DateTimeIndex == 4

DashByte == 45
NullByte == 0

-----------------------------------------------------------------------------
(* Byte strings *)

HexDigit(d) == IF d < 10 THEN 48 + d ELSE 87 + d

\* fmt.Sprintf("%x", n) for n >= 0
RECURSIVE Hex(_)
Hex(n) == IF n < 16 THEN <<HexDigit(n)>>
          ELSE Hex(n \div 16) \o <<HexDigit(n % 16)>>

\* bytes.Compare(a, b) < 0: the engine's key order
RECURSIVE BytesLess(_, _)
BytesLess(a, b) ==
    IF b = <<>> THEN FALSE
    ELSE IF a = <<>> THEN TRUE
    ELSE IF Head(a) # Head(b) THEN Head(a) < Head(b)
    ELSE BytesLess(Tail(a), Tail(b))

\* the keys of a bucket in cursor order (First, Next, ...)
RECURSIVE CursorOrder(_)
CursorOrder(S) ==
    IF S = {} THEN <<>>
    ELSE LET m == CHOOSE x \in S : \A y \in S \ {x} : BytesLess(x, y)
         IN  <<m>> \o CursorOrder(S \ {m})

-----------------------------------------------------------------------------
(* Identifiers *)

NilId == <<>>
NewId(typeId, objectId) == <<typeId, objectId>>

\* the verb %x applied to an int64: the sign, then the magnitude in base 16
SprintfHex(v) == IF v < 0 THEN <<DashByte>> \o Hex(0 - v) ELSE Hex(v)

\* Id.String(): fmt.Sprintf("%x-%x", id.TypeId, id.ObjectId)
IdString(id) == SprintfHex(id[1]) \o <<DashByte>> \o SprintfHex(id[2])

\* the int64 of identifiers, scaled to IdBits bits
MinInt64 == 0 - 2 ^ (IdBits - 1)
MaxInt64 == 2 ^ (IdBits - 1) - 1

\* strings.Split(s, "-"): the parts between the separators, cur being the
\* part collected so far
RECURSIVE SplitFrom(_, _)
SplitFrom(s, cur) ==
    IF s = <<>> THEN <<cur>>
    ELSE IF Head(s) = DashByte THEN <<cur>> \o SplitFrom(Tail(s), <<>>)
    ELSE SplitFrom(Tail(s), Append(cur, Head(s)))

Split(s) == SplitFrom(s, <<>>)

\* the value of a base-16 digit, -1 for any other byte
DigitValue(c) ==
    IF c \in 48..57 THEN c - 48
    ELSE IF c \in 97..102 THEN c - 87
    ELSE IF c \in 65..70 THEN c - 55
    ELSE 0 - 1

\* strconv.ParseUint(s, 16, 64) from digit i on, n being the value so far
RECURSIVE parseUintFrom(_, _, _)
parseUintFrom(s, i, n) ==
    IF i > Len(s) THEN [err |-> "ok", n |-> n]
    ELSE IF DigitValue(s[i]) < 0 THEN [err |-> "ErrSyntax", n |-> 0]
    ELSE IF n * 16 + DigitValue(s[i]) > 2 * MaxInt64 + 1 THEN [err |-> "ErrRange", n |-> 0]
    ELSE parseUintFrom(s, i + 1, n * 16 + DigitValue(s[i]))

ParseUint(s) ==
    IF s = <<>> THEN [err |-> "ErrSyntax", n |-> 0] ELSE parseUintFrom(s, 1, 0)

\* ParseInt after ParseUint returned un for the digits: the range check for
\* the sign
parseIntSigned(neg, un) ==
    IF un.err # "ok" THEN un
    ELSE IF ~neg /\ un.n > MaxInt64 THEN [err |-> "ErrRange", n |-> 0]
    ELSE IF neg /\ un.n > MaxInt64 + 1 THEN [err |-> "ErrRange", n |-> 0]
    ELSE [err |-> "ok", n |-> IF neg THEN 0 - un.n ELSE un.n]

\* strconv.ParseInt(s, 16, 64): an optional sign, then the digits
ParseInt(s) ==
    IF s = <<>> THEN [err |-> "ErrSyntax", n |-> 0]
    ELSE IF Head(s) = 43 THEN parseIntSigned(FALSE, ParseUint(Tail(s)))
    ELSE IF Head(s) = DashByte THEN parseIntSigned(TRUE, ParseUint(Tail(s)))
    ELSE parseIntSigned(FALSE, ParseUint(s))

\* IdFromString after the two ParseInt calls: [err, id]
idFromParts(typeId, objectId) ==
    IF typeId.err # "ok" THEN [err |-> "ErrInvalidTypeId", id |-> NilId]
    ELSE IF objectId.err # "ok" THEN [err |-> "ErrInvalidObjectId", id |-> NilId]
    ELSE [err |-> "ok", id |-> NewId(typeId.n, objectId.n)]

\* IdFromString accepting any number of parts and parsing the first two
idFromSplitAnyParts(parts) ==
    IF Len(parts) < 2 THEN [err |-> "ErrInvalidIdFormat", id |-> NilId]
    ELSE idFromParts(ParseInt(parts[1]), ParseInt(parts[2]))

idFromSplit(parts) ==
    IF Len(parts) # 2 THEN [err |-> "ErrInvalidIdFormat", id |-> NilId]
    ELSE idFromParts(ParseInt(parts[1]), ParseInt(parts[2]))

IdFromString(s) == idFromSplit(Split(s))

-----------------------------------------------------------------------------
(* Storables.  A Storable is a record with a field "kind":                 *)
(*   "nil"  : the nil interface value                                      *)
(*   "info" : *RegistryInfo   "item" : *RegistryItem                       *)
(*   "user" : an application struct {Id *Id; Sku string; Tag string}       *)
(*            whose GetTypeName() is its field TypeName and whose Marshal  *)
(*            fails when marshalErr is set                                 *)
(*   "typed": an application struct {Id *Id; Value T} whose one property   *)
(*            has the Go type goType: string, int64, float64, bool or      *)
(*            time.Time                                                    *)

NilStorable == [kind |-> "nil"]

NewRegistryItem(typeName) ==
    [kind |-> "item", Id |-> NilId, TypeName |-> typeName, TypeId |-> 0,
     NextObjectId |-> 0, Indexes |-> <<>>]

\* the Registry Info created with its type id counter at the first reserved id
NewRegistryInfoSeededAtOne ==
    [kind |-> "info", Id |-> NewId(REGISTRY_INFO_TYPE_ID, REGISTRY_INFO_OBJECT_ID),
     NextTypeId |-> REGISTRY_INFO_TYPE_ID, NextObjectId |-> FirstObjectId]

NewRegistryInfo ==
    [kind |-> "info", Id |-> NewId(REGISTRY_INFO_TYPE_ID, REGISTRY_INFO_OBJECT_ID),
     NextTypeId |-> FirstTypeId, NextObjectId |-> FirstObjectId]

UserRecord(typeName, id, sku, tag) ==
    [kind |-> "user", TypeName |-> typeName, Id |-> id, Sku |-> sku, Tag |-> tag,
     marshalErr |-> FALSE]

GetId(m) ==
    IF m.kind = "info"
    THEN NewId(REGISTRY_INFO_TYPE_ID, REGISTRY_INFO_OBJECT_ID)
    ELSE m.Id

StorableTypeName(m) ==
    CASE m.kind = "info" -> REGISTRY_INFO_TYPE_NAME
      [] m.kind = "item" -> REGISTRY_ITEM_TYPE_NAME
      [] OTHER -> m.TypeName

\* json.Marshal: the struct's tagged fields under their json names
Marshal(m) ==
    CASE m.kind = "info" ->
            [id |-> m.Id, nextTypeId |-> m.NextTypeId, nextObjectId |-> m.NextObjectId]
      [] m.kind = "item" ->
            [id |-> m.Id, typeName |-> m.TypeName, typeId |-> m.TypeId,
             nextObjectId |-> m.NextObjectId,
             indexes |-> [i \in DOMAIN m.Indexes |->
                            [propertyName |-> m.Indexes[i].PropertyName,
                             type |-> m.Indexes[i].Type,
                             dataType |-> m.Indexes[i].DataType]]]
      [] OTHER ->
            [id |-> m.Id, sku |-> m.Sku, tag |-> m.Tag]

\* json.Unmarshal into a fresh instance
Unmarshal(instance, data) ==
    CASE instance.kind = "info" ->
            [instance EXCEPT !.Id = data.id, !.NextTypeId = data.nextTypeId,
                             !.NextObjectId = data.nextObjectId]
      [] instance.kind = "item" ->
            [instance EXCEPT !.Id = data.id, !.TypeName = data.typeName,
                             !.TypeId = data.typeId,
                             !.NextObjectId = data.nextObjectId,
                             !.Indexes = [i \in DOMAIN data.indexes |->
                                 [PropertyName |-> data.indexes[i].propertyName,
                                  Type |-> data.indexes[i].type,
                                  DataType |-> data.indexes[i].dataType]]]
      [] OTHER ->
            [instance EXCEPT !.Id = data.id, !.Sku = data.sku, !.Tag = data.tag]

\* reflect's FieldByName on the struct behind a Storable: <<>> for the zero
\* Value (no such field), else the field's Go type and value.  Only the
\* application structs are ever indexed: Indexes() is empty for the two
\* reserved type ids.
FieldByName(m, propertyName) ==
    IF m.kind = "user" /\ propertyName \in {"Sku", "Tag"}
    THEN <<[goType |-> "string", v |-> m[propertyName]]>>
    ELSE IF m.kind = "typed" /\ propertyName = "Value"
    THEN <<[goType |-> m.goType, v |-> m.Value]>>
    ELSE <<>>

\* the result of a GetIndexable<Type>Value call: the value and the success
\* flag, or the panic of the call
Extracted(v) == [res |-> "ok", v |-> v]
NotExtracted == [res |-> "skip", v |-> <<>>]
ExtractPanics == [res |-> "panic", v |-> <<>>]

\* the checks GetIndexableString/Int/Float/BoolValue share: the field is
\* valid and of the wanted kind (field.Kind() of the zero Value is Invalid)
fieldOfKind(field, goType) ==
    IF field = <<>> THEN NotExtracted
    ELSE IF field[1].goType # goType THEN NotExtracted
    ELSE Extracted(field[1].v)

GetIndexableStringValue(m, propertyName) ==
    fieldOfKind(FieldByName(m, propertyName), "string")

GetIndexableIntValue(m, propertyName) ==
    fieldOfKind(FieldByName(m, propertyName), "int64")

GetIndexableFloatValue(m, propertyName) ==
    fieldOfKind(FieldByName(m, propertyName), "float64")

GetIndexableBoolValue(m, propertyName) ==
    fieldOfKind(FieldByName(m, propertyName), "bool")

\* GetIndexableDateTimeValue: the arguments of its slog.Warn include
\* field.Type().String(), and Type() of the zero Value panics
dateTimeField(field) ==
    IF field = <<>> THEN ExtractPanics
    ELSE IF field[1].goType # "time.Time" THEN NotExtracted
    ELSE Extracted(field[1].v)

GetIndexableDateTimeValue(m, propertyName) ==
    dateTimeField(FieldByName(m, propertyName))

-----------------------------------------------------------------------------
(* The engine (bbolt): buckets of key -> value, read and written in        *)
(* transactions.  A transaction works on a copy tx of the durable content. *)

EmptyBucket == [k \in {} |-> <<>>]

CreateBucketIfNotExists(tx, name) ==
    IF name \in DOMAIN tx THEN tx ELSE (name :> EmptyBucket) @@ tx

\* Bucket.Put: bbolt refuses an empty key
BucketPutOk(key) == key # <<>>

BucketPut(tx, name, key, value) ==
    [tx EXCEPT ![name] = (key :> value) @@ @]

BucketDelete(tx, name, key) ==
    [tx EXCEPT ![name] = [k \in (DOMAIN @) \ {key} |-> @[k]]]

\* db.Update(fn): out is what fn returned on its working copy; the writes
\* become durable only if fn returned nil and the commit succeeded (io)
Update(d, out, io) ==
    IF ~io THEN [err |-> "ErrEngine", db |-> d]
    ELSE IF out.err # "ok" THEN [err |-> out.err, db |-> d]
    ELSE [err |-> "ok", db |-> out.tx]

-----------------------------------------------------------------------------
(* store.StoreTypeManager as implemented by SystemRegistry.  r is the      *)
(* registry's memory: [items, typeIdIndex, typeNameIndex].                 *)

\* <<name>> or <<>> (ErrTypeNotFound)
GetTypeName(r, typeId) ==
    IF typeId = REGISTRY_INFO_TYPE_ID THEN <<REGISTRY_INFO_TYPE_NAME>>
    ELSE IF typeId = REGISTRY_ITEM_TYPE_ID THEN <<REGISTRY_ITEM_TYPE_NAME>>
    ELSE IF typeId \in DOMAIN r.typeIdIndex
    THEN <<r.items[r.typeIdIndex[typeId]].TypeName>>
    ELSE <<>>

\* <<typeId>> or <<>> (ErrTypeNotFound)
GetTypeId(r, typeName) ==
    IF typeName \in DOMAIN r.typeNameIndex
    THEN <<r.items[r.typeNameIndex[typeName]].TypeId>>
    ELSE <<>>

Indexes(r, typeId) ==
    IF typeId \in DOMAIN r.typeIdIndex
    THEN r.items[r.typeIdIndex[typeId]].Indexes
    ELSE <<>>

\* <<instance>> or <<>> (ErrTypeNotFound); a user type's factory returns the
\* zero value of the struct registered under the item's name
CreateInstance(r, typeId) ==
    IF typeId = REGISTRY_INFO_TYPE_ID
    THEN <<[kind |-> "info", Id |-> NilId, NextTypeId |-> 0, NextObjectId |-> 0]>>
    ELSE IF typeId = REGISTRY_ITEM_TYPE_ID
    THEN <<NewRegistryItem("")>>
    ELSE IF typeId \in DOMAIN r.typeIdIndex
    THEN <<UserRecord(r.items[r.typeIdIndex[typeId]].TypeName, NilId, <<>>, <<>>)>>
    ELSE <<>>

-----------------------------------------------------------------------------
(* store.BoltStore.  A call's result is computed once and handed on to    *)
(* the operator that models the code after the call.                       *)

\* <<bucket name>> or <<>> (ErrTypeNotFound)
typeBucketName(n) == IF n = <<>> THEN <<>> ELSE <<"Type." \o n[1]>>

typeBucketKey(r, typeId) == typeBucketName(GetTypeName(r, typeId))

indexBucketName(n, propertyName) ==
    IF n = <<>> THEN <<>> ELSE <<"Index." \o n[1] \o "." \o propertyName>>

mkIndexBucketName(r, typeId, propertyName) ==
    indexBucketName(GetTypeName(r, typeId), propertyName)

\* the key of a NonUnique entry built from the value alone
buildIndexKeyWithoutId(indexType, valueBytes, id) ==
    IF indexType \in {UniqueIndex, NonUniqueIndex} THEN valueBytes ELSE <<>>

buildIndexKey(indexType, valueBytes, id) ==
    IF indexType = UniqueIndex THEN valueBytes
    ELSE IF indexType = NonUniqueIndex
    THEN valueBytes \o <<NullByte>> \o IdString(id)
    ELSE <<>>

\* The widths of the index codec, scaled down: a byte has ByteBits bits, an
\* int64 or float64 has WordBytes bytes (8 bytes of 8 bits in the program),
\* and a float64 has one sign bit, ExpBits exponent bits and ManBits mantissa
\* bits (1, 11 and 52 in the program).
WordBits == ByteBits * WordBytes
WordSize == 2 ^ WordBits
SignBit == 2 ^ (WordBits - 1)
ManBits == WordBits - 1 - ExpBits

\* the int64 values and the float64 bit patterns of the scaled width
Int64Values == (0 - SignBit) .. (SignBit - 1)
Float64Bits == 0 .. (WordSize - 1)

\* uint64(intValue): the two's complement bit pattern
ToUint64(v) == v % WordSize

\* u ^ (1 << 63)
XorSignBit(u) == IF u >= SignBit THEN u - SignBit ELSE u + SignBit

\* binary.BigEndian.PutUint64(buf, u): the most significant byte first
PutUint64(u) ==
    [i \in 1..WordBytes |-> (u \div (2 ^ (ByteBits * (WordBytes - i)))) % (2 ^ ByteBits)]

\* the Int64Index case: the sign bit flipped, big-endian
encodeInt64Unflipped(intValue) == PutUint64(ToUint64(intValue))

encodeInt64(intValue) == PutUint64(XorSignBit(ToUint64(intValue)))

\* the Float64Index case, on math.Float64bits(floatValue): a pattern with
\* the sign bit clear gets it set, a pattern with the sign bit set is
\* inverted
encodeFloat64SignOnly(bits) == PutUint64(XorSignBit(bits))

encodeFloat64(bits) ==
    PutUint64(IF bits < SignBit THEN bits + SignBit ELSE (WordSize - 1) - bits)

\* the BoolIndex case
encodeBool(boolValue) == IF boolValue THEN <<1>> ELSE <<0>>

\* A time.Time: the instant, as hour, second and hundredths of a second of
\* 2006-01-02 UTC, and the offset in hours of the zone it is expressed in.
\* two decimal digits
TwoDigits(n) == <<48 + (n \div 10), 48 + (n % 10)>>

\* the layout element ".999999999": the fraction without trailing zeros,
\* and nothing at all for a whole second
formatFraction(cs) ==
    IF cs = 0 THEN <<>>
    ELSE IF cs % 10 = 0 THEN <<46, 48 + (cs \div 10)>>
    ELSE <<46>> \o TwoDigits(cs)

\* the layout element "Z07:00": Z for offset zero, else the signed offset
formatZone(off) ==
    IF off = 0 THEN <<90>>
    ELSE <<(IF off < 0 THEN 45 ELSE 43)>>
         \o TwoDigits(IF off < 0 THEN 0 - off ELSE off) \o <<58, 48, 48>>

\* timeValue.AppendFormat(buf, time.RFC3339Nano): the wall clock of the
\* value's own zone
formatRFC3339Nano(t) ==
    <<50, 48, 48, 54, 45, 48, 49, 45, 48, 50, 84>>
    \o TwoDigits(t.hour + t.off) \o <<58, 48, 48, 58>> \o TwoDigits(t.sec)
    \o formatFraction(t.cs) \o formatZone(t.off)

\* propertyValueBytes and ok after the switch: got is the result of the
\* GetIndexable<Type>Value call, bytes the encoding of its value
encoded(got, bytes) ==
    IF got.res = "ok" THEN [res |-> "ok", bytes |-> bytes]
    ELSE [res |-> got.res, bytes |-> <<>>]

encodeInt64Field(got) ==
    encoded(got, IF got.res = "ok" THEN encodeInt64(got.v) ELSE <<>>)

encodeFloat64Field(got) ==
    encoded(got, IF got.res = "ok" THEN encodeFloat64(got.v) ELSE <<>>)

encodeBoolField(got) ==
    encoded(got, IF got.res = "ok" THEN encodeBool(got.v) ELSE <<>>)

encodeDateTimeField(got) ==
    encoded(got, IF got.res = "ok" THEN formatRFC3339Nano(got.v) ELSE <<>>)

encodeStringField(got) == encoded(got, got.v)

\* the switch on index.DataType: [res, bytes] with res "ok", "skip" (this
\* index is skipped) or "panic"
propertyValueBytes(m, index) ==
    CASE index.DataType = StringIndex ->
            encodeStringField(GetIndexableStringValue(m, index.PropertyName))
      [] index.DataType = Int64Index ->
            encodeInt64Field(GetIndexableIntValue(m, index.PropertyName))
      [] index.DataType = Float64Index ->
            encodeFloat64Field(GetIndexableFloatValue(m, index.PropertyName))
      [] index.DataType = BoolIndex ->
            encodeBoolField(GetIndexableBoolValue(m, index.PropertyName))
      [] index.DataType = DateTimeIndex ->
            encodeDateTimeField(GetIndexableDateTimeValue(m, index.PropertyName))
      [] OTHER -> [res |-> "skip", bytes |-> <<>>]

\* putIndexEntry with the check of line 130 reduced to existingIdBytes != nil
putIndexEntryOwnEntryConflicts(tx, name, indexType, indexKey, idBytes) ==
    IF /\ indexType = UniqueIndex
       /\ indexKey \in DOMAIN tx[name]
    THEN [err |-> "ErrUniqueIndexConstraintViolation", tx |-> tx]
    ELSE IF ~BucketPutOk(indexKey) THEN [err |-> "ErrIndexPutFailed", tx |-> tx]
    ELSE [err |-> "ok", tx |-> BucketPut(tx, name, indexKey, idBytes)]

\* updateIndexes, one index: the uniqueness check and the write of the entry
putIndexEntry(tx, name, indexType, indexKey, idBytes) ==
    IF /\ indexType = UniqueIndex
       /\ indexKey \in DOMAIN tx[name]
       /\ tx[name][indexKey] # idBytes
    THEN [err |-> "ErrUniqueIndexConstraintViolation", tx |-> tx]
    ELSE IF ~BucketPutOk(indexKey) THEN [err |-> "ErrIndexPutFailed", tx |-> tx]
    ELSE [err |-> "ok", tx |-> BucketPut(tx, name, indexKey, idBytes)]

\* updateIndexes, one index: pv is the result of the switch on the data type
encodeIndexEntry(tx, name, index, pv, id) ==
    IF pv.res = "panic" THEN [err |-> "panic", tx |-> tx]
    ELSE IF pv.res = "skip" THEN [err |-> "ok", tx |-> tx]
    ELSE putIndexEntry(tx, name, index.Type,
                       buildIndexKey(index.Type, pv.bytes, id), IdString(id))

\* updateIndexes, the loop body for one index definition
updateIndex(tx, m, index, nm) ==
    IF nm = <<>> THEN [err |-> "ErrTypeNotFound", tx |-> tx]
    ELSE encodeIndexEntry(CreateBucketIfNotExists(tx, nm[1]), nm[1], index,
                          propertyValueBytes(m, index), GetId(m))

RECURSIVE updateIndexesFrom(_, _, _, _)
\* the loop: out is the result of the body for definition i
updateIndexesNext(r, out, m, i) ==
    IF out.err # "ok" THEN out ELSE updateIndexesFrom(r, out.tx, m, i + 1)

updateIndexesFrom(r, tx, m, i) ==
    IF i > Len(Indexes(r, GetId(m)[1])) THEN [err |-> "ok", tx |-> tx]
    ELSE updateIndexesNext(
             r,
             updateIndex(tx, m, Indexes(r, GetId(m)[1])[i],
                         mkIndexBucketName(r, GetId(m)[1],
                                           Indexes(r, GetId(m)[1])[i].PropertyName)),
             m, i)

updateIndexes(r, tx, m) == updateIndexesFrom(r, tx, m, 1)

MarshalFails(m) == m.kind = "user" /\ m.marshalErr

\* the record written under its object id alone
putPrimaryKeyedByObjectId(tx, bucketName, m) ==
    BucketPut(CreateBucketIfNotExists(tx, bucketName), bucketName,
              Hex(GetId(m)[2]), Marshal(m))

\* the write of the record into its type's bucket
putPrimary(tx, bucketName, m) ==
    BucketPut(CreateBucketIfNotExists(tx, bucketName), bucketName,
              IdString(GetId(m)), Marshal(m))

\* the function Put hands to db.Update
PutTx(r, tx, m, bucketName) == updateIndexes(r, putPrimary(tx, bucketName, m), m)

\* Put writing the primary entry in a transaction of its own, before the one
\* that updates the indexes
PutInBucketTwoTransactions(r, d, m, bk, io) ==
    IF bk = <<>> THEN [err |-> "ErrTypeNotFound", db |-> d]
    ELSE IF MarshalFails(m) THEN [err |-> "ErrMarshalFailed", db |-> d]
    ELSE Update(putPrimary(d, bk[1], m), PutTx(r, d, m, bk[1]), io)

\* Put after its typeBucketKey call returned bk
PutInBucket(r, d, m, bk, io) ==
    IF bk = <<>> THEN [err |-> "ErrTypeNotFound", db |-> d]
    ELSE IF MarshalFails(m) THEN [err |-> "ErrMarshalFailed", db |-> d]
    ELSE Update(d, PutTx(r, d, m, bk[1]), io)

\* Put reporting a record without identifier as a nil record
PutConfusesNilChecks(r, d, m, io) ==
    IF m = NilStorable \/ GetId(m) = NilId THEN [err |-> "ErrNilStoreable", db |-> d]
    ELSE PutInBucket(r, d, m, typeBucketKey(r, GetId(m)[1]), io)

Put(r, d, m, io) ==
    IF m = NilStorable THEN [err |-> "ErrNilStoreable", db |-> d]
    ELSE IF GetId(m) = NilId THEN [err |-> "ErrStorableHasNilId", db |-> d]
    ELSE PutInBucket(r, d, m, typeBucketKey(r, GetId(m)[1]), io)

RECURSIVE PutAllFrom(_, _, _, _)
\* PutAll's loop: out is the result of updateIndexes for record i
PutAllNext(r, out, ms, i) ==
    IF out.err # "ok" THEN [err |-> "ErrIndexUpdateFailed", tx |-> out.tx]
    ELSE PutAllFrom(r, out.tx, ms, i + 1)

\* PutAll's loop body for record i after its typeBucketKey call returned bk
PutAllInBucket(r, tx, ms, i, bk) ==
    IF bk = <<>> THEN [err |-> "ErrTypeNotFound", tx |-> tx]
    ELSE IF MarshalFails(ms[i]) THEN [err |-> "ErrMarshalFailed", tx |-> tx]
    ELSE PutAllNext(r, updateIndexes(r, putPrimary(tx, bk[1], ms[i]), ms[i]), ms, i)

PutAllFrom(r, tx, ms, i) ==
    IF i > Len(ms) THEN [err |-> "ok", tx |-> tx]
    ELSE IF ms[i] = NilStorable THEN [err |-> "ErrNilStoreable", tx |-> tx]
    ELSE IF GetId(ms[i]) = NilId THEN [err |-> "ErrStorableHasNilId", tx |-> tx]
    ELSE PutAllInBucket(r, tx, ms, i, typeBucketKey(r, GetId(ms[i])[1]))

\* PutAll keeping the writes of the records before the failing one
PutAllKeepsPrefix(r, d, ms, io) ==
    IF Len(ms) = 0 THEN [err |-> "ok", db |-> d]
    ELSE [err |-> PutAllFrom(r, d, ms, 1).err, db |-> PutAllFrom(r, d, ms, 1).tx]

PutAll(r, d, ms, io) ==
    IF Len(ms) = 0 THEN [err |-> "ok", db |-> d]
    ELSE Update(d, PutAllFrom(r, d, ms, 1), io)

\* Get looking for the key without checking that the bucket exists
GetTxSkipsBucketCheck(d, key, bk, inst, io) ==
    IF ~io THEN [err |-> "ErrEngine", m |-> NilStorable]
    ELSE IF bk \notin DOMAIN d \/ key \notin DOMAIN d[bk]
    THEN [err |-> "ErrKeyNotFound", m |-> NilStorable]
    ELSE IF inst = <<>> THEN [err |-> "ErrTypeNotCreated", m |-> NilStorable]
    ELSE [err |-> "ok", m |-> Unmarshal(inst[1], d[bk][key])]

\* the function Get hands to db.View; bk is the bucket name, inst the result
\* of CreateInstance
GetTx(d, key, bk, inst, io) ==
    IF ~io THEN [err |-> "ErrEngine", m |-> NilStorable]
    ELSE IF bk \notin DOMAIN d THEN [err |-> "ErrBucketNotFound", m |-> NilStorable]
    ELSE IF key \notin DOMAIN d[bk] THEN [err |-> "ErrKeyNotFound", m |-> NilStorable]
    ELSE IF inst = <<>> THEN [err |-> "ErrTypeNotCreated", m |-> NilStorable]
    ELSE [err |-> "ok", m |-> Unmarshal(inst[1], d[bk][key])]

GetInBucket(r, d, id, bk, io) ==
    IF bk = <<>> THEN [err |-> "ErrTypeNotFound", m |-> NilStorable]
    ELSE GetTx(d, IdString(id), bk[1], CreateInstance(r, id[1]), io)

\* Get: [err, m]
Get(r, d, id, io) ==
    IF id = NilId THEN [err |-> "ErrIdIsNil", m |-> NilStorable]
    ELSE GetInBucket(r, d, id, typeBucketKey(r, id[1]), io)

\* the cursor loop of getAllFromBucket over the keys in cursor order
getAllEntries(bucket, keys, inst) ==
    IF keys # <<>> /\ inst = <<>> THEN [err |-> "ErrTypeNotCreated", ms |-> <<>>]
    ELSE [err |-> "ok",
          ms |-> [i \in DOMAIN keys |-> Unmarshal(inst[1], bucket[keys[i]])]]

getAllInBucket(r, d, typeId, bk, io) ==
    IF bk = <<>> THEN [err |-> "ErrTypeNotFound", ms |-> <<>>]
    ELSE IF ~io THEN [err |-> "ErrEngine", ms |-> <<>>]
    ELSE IF bk[1] \notin DOMAIN d THEN [err |-> "ok", ms |-> <<>>]
    ELSE getAllEntries(d[bk[1]], CursorOrder(DOMAIN d[bk[1]]), CreateInstance(r, typeId))

\* getAllFromBucket: [err, ms]
GetAll(r, d, typeId, io) == getAllInBucket(r, d, typeId, typeBucketKey(r, typeId), io)

\* GetAllByTypeName: [err, ms]; typeId is the result of GetTypeId
getAllByTypeId(r, d, typeId, io) ==
    IF typeId = <<>> THEN [err |-> "ErrTypeNotFound", ms |-> <<>>]
    ELSE GetAll(r, d, typeId[1], io)

GetAllByTypeName(r, d, typeName, io) == getAllByTypeId(r, d, GetTypeId(r, typeName), io)

\* Exists reporting a missing bucket as an error
ExistsTxReportsMissingBucket(d, key, bk, io) ==
    IF ~io THEN [err |-> "ErrEngine", exists |-> FALSE]
    ELSE IF bk \notin DOMAIN d THEN [err |-> "ErrBucketNotFound", exists |-> FALSE]
    ELSE [err |-> "ok", exists |-> key \in DOMAIN d[bk]]

\* the function Exists hands to db.View: an absent bucket or key is no error
ExistsTx(d, key, bk, io) ==
    IF ~io THEN [err |-> "ErrEngine", exists |-> FALSE]
    ELSE IF bk \notin DOMAIN d THEN [err |-> "ok", exists |-> FALSE]
    ELSE [err |-> "ok", exists |-> key \in DOMAIN d[bk]]

ExistsInBucket(d, id, bk, io) ==
    IF bk = <<>> THEN [err |-> "ErrTypeNotFound", exists |-> FALSE]
    ELSE ExistsTx(d, IdString(id), bk[1], io)

\* Exists: [err, exists]
Exists(r, d, id, io) ==
    IF id = NilId THEN [err |-> "ErrIdIsNil", exists |-> FALSE]
    ELSE ExistsInBucket(d, id, typeBucketKey(r, id[1]), io)

\* Delete's index cleanup, one index: pv is the result of the switch on the
\* data type for the record Get returned
deleteIndexEntry(tx, nm, indexDef, pv, id) ==
    IF nm = <<>> THEN [err |-> "ErrTypeNotFound", tx |-> tx]
    ELSE IF nm[1] \notin DOMAIN tx THEN [err |-> "ok", tx |-> tx]
    ELSE IF pv.res = "panic" THEN [err |-> "panic", tx |-> tx]
    ELSE IF pv.res = "skip" THEN [err |-> "ok", tx |-> tx]
    ELSE [err |-> "ok",
          tx |-> BucketDelete(tx, nm[1], buildIndexKey(indexDef.Type, pv.bytes, id))]

RECURSIVE deleteIndexesFrom(_, _, _, _, _)
deleteIndexesNext(r, out, id, itemToDelete, i) ==
    IF out.err # "ok" THEN out
    ELSE deleteIndexesFrom(r, out.tx, id, itemToDelete, i + 1)

\* the index cleanup loop of Delete from definition i on
deleteIndexesFrom(r, tx, id, itemToDelete, i) ==
    IF i > Len(Indexes(r, id[1])) THEN [err |-> "ok", tx |-> tx]
    ELSE deleteIndexesNext(
             r,
             deleteIndexEntry(tx,
                              mkIndexBucketName(r, id[1],
                                                Indexes(r, id[1])[i].PropertyName),
                              Indexes(r, id[1])[i],
                              propertyValueBytes(itemToDelete, Indexes(r, id[1])[i]),
                              id),
             id, itemToDelete, i)

deleteInBucket(r, tx, id, itemToDelete, bk) ==
    IF bk = <<>> THEN [err |-> "ErrTypeNotFound", tx |-> tx]
    ELSE IF bk[1] \notin DOMAIN tx THEN [err |-> "ErrBucketNotFound", tx |-> tx]
    ELSE deleteIndexesFrom(r, BucketDelete(tx, bk[1], IdString(id)), id,
                           itemToDelete, 1)

\* the function Delete hands to db.Update, given the record Get returned
DeleteTx(r, tx, id, itemToDelete) ==
    deleteInBucket(r, tx, id, itemToDelete, typeBucketKey(r, id[1]))

\* Delete reporting the absence of the record as an error
DeleteGotReportsAbsence(r, d, id, got, io) ==
    IF got.err # "ok" THEN [err |-> got.err, db |-> d]
    ELSE Update(d, DeleteTx(r, d, id, got.m), io)

\* Delete after its Get returned got; d is the engine's content when the
\* Update transaction starts
DeleteGot(r, d, id, got, io) ==
    IF got.err \in {"ErrKeyNotFound", "ErrBucketNotFound"} THEN [err |-> "ok", db |-> d]
    ELSE IF got.err # "ok" THEN [err |-> got.err, db |-> d]
    ELSE Update(d, DeleteTx(r, d, id, got.m), io)

\* Delete as one call with nothing running between its Get and its Update
Delete(r, d, id, ioGet, ioUpdate) ==
    IF id = NilId THEN [err |-> "ErrIdIsNil", db |-> d]
    ELSE DeleteGot(r, d, id, Get(r, d, id, ioGet), ioUpdate)

-----------------------------------------------------------------------------
(* types.SystemRegistry.  r is the registry's memory:                      *)
(* [items, info, typeIdIndex, typeNameIndex].                              *)

EmptyIndex == [k \in {} |-> 0]

\* NewSystemRegistry: no items, nil info, nil maps
NewSystemRegistry ==
    [items |-> <<>>, info |-> <<>>, typeIdIndex |-> EmptyIndex,
     typeNameIndex |-> EmptyIndex]

Register(r, typename) ==
    [r EXCEPT !.items = Append(@, NewRegistryItem(typename))]

\* RegistryItem.AddIndex: the definition's DataType is left at its zero value
AddIndex(ri, propertyName, indexType) ==
    [ri EXCEPT !.Indexes = Append(@, [PropertyName |-> propertyName,
                                      Type |-> indexType,
                                      DataType |-> StringIndex])]

Index(r, typeName, propertyName, indexType) ==
    [r EXCEPT !.items = [i \in DOMAIN @ |->
        IF @[i].TypeName = typeName
        THEN AddIndex(@[i], propertyName, indexType)
        ELSE @[i]]]

\* AllocateId after the increment: r1 is the registry with the counter of
\* item p incremented, id the identifier stamped on the record, put the
\* result of r.store.Put(info)
allocateIdPut(r1, id, put) == [err |-> put.err, r |-> r1, db |-> put.db, id |-> id]

\* AllocateId for the item at position p (info := r.typeNameIndex[...])
allocateIdFor(r, d, p, r1, io) ==
    allocateIdPut(r1, NewId(r.items[p].TypeId, r.items[p].NextObjectId),
                  Put(r1, d, r1.items[p], io))

\* AllocateId without the increment of the counter
AllocateIdNoIncrement(r, d, typeName, io) ==
    IF typeName \notin DOMAIN r.typeNameIndex
    THEN [err |-> "ErrTypeNotFound", r |-> r, db |-> d, id |-> NilId]
    ELSE allocateIdFor(r, d, r.typeNameIndex[typeName], r, io)

\* AllocateId stamping the zero identifier on a record of an unknown type
AllocateIdStampsUnknownType(r, d, typeName, io) ==
    IF typeName \notin DOMAIN r.typeNameIndex
    THEN [err |-> "ErrTypeNotFound", r |-> r, db |-> d, id |-> NewId(0, 0)]
    ELSE allocateIdFor(r, d, r.typeNameIndex[typeName],
                       [r EXCEPT !.items[r.typeNameIndex[typeName]].NextObjectId = @ + 1],
                       io)

\* [err, r, db, id]: id is the identifier stamped on the record (item.SetId),
\* NilId when the call returned before stamping
AllocateId(r, d, typeName, io) ==
    IF typeName \notin DOMAIN r.typeNameIndex
    THEN [err |-> "ErrTypeNotFound", r |-> r, db |-> d, id |-> NilId]
    ELSE allocateIdFor(r, d, r.typeNameIndex[typeName],
                       [r EXCEPT !.items[r.typeNameIndex[typeName]].NextObjectId = @ + 1],
                       io)

updateTypeInfo(its, item) ==
    [i \in DOMAIN its |->
        IF its[i].TypeName = item.TypeName
        THEN [its[i] EXCEPT !.Id = item.Id, !.TypeId = item.TypeId,
                            !.NextObjectId = item.NextObjectId,
                            !.Indexes = item.Indexes]
        ELSE its[i]]

\* the loop over the persisted RegistryItems, in GetAll's order
RECURSIVE updateAllTypeInfo(_, _)
updateAllTypeInfo(its, types) ==
    IF types = <<>> THEN its
    ELSE updateAllTypeInfo(updateTypeInfo(its, Head(types)), Tail(types))

\* allocateNewType after s.Put(r.info) returned putInfo
allocateNewTypeInfoPut(r1, putInfo) ==
    [res |-> IF putInfo.err # "ok" THEN "panic" ELSE "ok", r |-> r1, db |-> putInfo.db]

\* allocateNewType after s.Put(item) returned putItem
allocateNewTypeItemPut(r1, putItem, ioInfo) ==
    IF putItem.err # "ok" THEN [res |-> "panic", r |-> r1, db |-> putItem.db]
    ELSE allocateNewTypeInfoPut(r1, Put(r1, putItem.db, r1.info[1], ioInfo))

\* allocateNewType for items[i], r1 being the registry after its assignments
allocateNewTypePut(r1, d, i, ioItem, ioInfo) ==
    allocateNewTypeItemPut(r1, Put(r1, d, r1.items[i], ioItem), ioInfo)

\* allocateNewType for items[i]: [res, r, db]; res is "panic" when one of its
\* two Puts fails (ioItem, ioInfo)
allocateNewType(r, d, i, ioItem, ioInfo) ==
    allocateNewTypePut(
        [r EXCEPT !.items[i].TypeId = r.info[1].NextTypeId,
                  !.items[i].Id = NewId(REGISTRY_ITEM_TYPE_ID, r.info[1].NextObjectId),
                  !.items[i].NextObjectId = FirstItemObjectId,
                  !.info[1].NextTypeId = @ + 1,
                  !.info[1].NextObjectId = @ + 1],
        d, i, ioItem, ioInfo)

\* the loop "Check any types that may be new types" from item i on; k counts
\* the types allocated so far in this Load, f names the store call that fails
RECURSIVE allocateNewTypesFrom(_, _, _, _, _)
allocateNewTypesNext(out, i, k, f) ==
    IF out.res # "ok" THEN out
    ELSE allocateNewTypesFrom(out.r, out.db, i + 1, k + 1, f)

allocateNewTypesFrom(r, d, i, k, f) ==
    IF i > Len(r.items) THEN [res |-> "ok", r |-> r, db |-> d]
    ELSE IF r.items[i].TypeId # 0 THEN allocateNewTypesFrom(r, d, i + 1, k, f)
    ELSE allocateNewTypesNext(
             allocateNewType(r, d, i, f # <<"PutItem", k + 1>>,
                             f # <<"PutNewInfo", k + 1>>),
             i, k, f)

\* the two maps Load builds at its end: a later item overwrites an earlier
\* one under the same key
LastOf(S) == CHOOSE i \in S : \A j \in S : j <= i

BuildTypeIdIndex(its) ==
    [t \in {its[i].TypeId : i \in DOMAIN its} |->
        LastOf({i \in DOMAIN its : its[i].TypeId = t})]

BuildTypeNameIndex(its) ==
    [n \in {its[i].TypeName : i \in DOMAIN its} |->
        LastOf({i \in DOMAIN its : its[i].TypeName = n})]

\* AllocateBucketIfNeeded for one of the two reserved names
AllocateBucketIfNeeded(d, typeName, io) ==
    IF io THEN CreateBucketIfNotExists(d, "Type." \o typeName) ELSE d

\* Load after the loop over the new types returned out
loadBuildIndexes(out) ==
    IF out.res # "ok" THEN out
    ELSE [res |-> "ok",
          r |-> [out.r EXCEPT !.typeIdIndex = BuildTypeIdIndex(out.r.items),
                              !.typeNameIndex = BuildTypeNameIndex(out.r.items)],
          db |-> out.db]

\* Load after s.GetAll returned all; r1 holds r.info
loadTypes(r1, d, all, f) ==
    IF all.err # "ok" THEN [res |-> all.err, r |-> r1, db |-> d]
    ELSE loadBuildIndexes(
             allocateNewTypesFrom([r1 EXCEPT !.items = updateAllTypeInfo(@, all.ms)],
                                  d, 1, 0, f))

\* Load from "r.info = info" on; d is the store after the optional s.Put(info)
loadInfo(r1, d, f) ==
    loadTypes(r1, d, GetAll(r1, d, REGISTRY_ITEM_TYPE_ID, f # <<"GetAll", 0>>), f)

\* Load after s.Get(infoId) returned got
loadGot(r, d, got, f) ==
    IF got.err = "ok" THEN loadInfo([r EXCEPT !.info = <<got.m>>], d, f)
    ELSE IF got.err = "ErrKeyNotFound"
    THEN loadInfo([r EXCEPT !.info = <<NewRegistryInfo>>],
                  Put(r, d, NewRegistryInfo, f # <<"PutInfo", 0>>).db, f)
    ELSE [res |-> got.err, r |-> r, db |-> d]

\* Load after the two AllocateBucketIfNeeded calls
loadBuckets(r, d, f) ==
    loadGot(r, d,
            Get(r, d, NewId(REGISTRY_INFO_TYPE_ID, REGISTRY_INFO_OBJECT_ID),
                f # <<"Get", 0>>),
            f)

\* Load(s): [res, r, db]; res is "ok", the error returned, or "panic".
\* f names the one store call of this Load that fails, <<"none", 0>> for none.
Load(r, d, f) ==
    loadBuckets(r,
                AllocateBucketIfNeeded(
                    AllocateBucketIfNeeded(d, REGISTRY_INFO_TYPE_NAME,
                                           f # <<"AllocateBucket", 1>>),
                    REGISTRY_ITEM_TYPE_NAME, f # <<"AllocateBucket", 2>>),
                f)

-----
(* The state machine: one process at a time uses the store; its calls run  *)
(* one after the other.                                                    *)

Reg == [items |-> items, info |-> info, typeIdIndex |-> typeIdIndex,
        typeNameIndex |-> typeNameIndex]

SetReg(r) ==
    /\ items' = r.items
    /\ info' = r.info
    /\ typeIdIndex' = r.typeIdIndex
    /\ typeNameIndex' = r.typeNameIndex

EmptyDb == [b \in {} |-> EmptyBucket]

Init ==
    /\ items = NewSystemRegistry.items
    /\ info = NewSystemRegistry.info
    /\ typeIdIndex = NewSystemRegistry.typeIdIndex
    /\ typeNameIndex = NewSystemRegistry.typeNameIndex
    /\ db = EmptyDb
    /\ stamped = <<>>
    /\ epochStart = 0
    /\ last = [op |-> "New", err |-> "ok"]
    /\ mu = <<>>
    /\ pc = [c \in Callers |-> "idle"]
    /\ loc = [c \in Callers |-> <<>>]

IndexTypes == {UniqueIndex, NonUniqueIndex}

LoadFailPoints ==
    {<<"none", 0>>, <<"AllocateBucket", 1>>, <<"AllocateBucket", 2>>, <<"Get", 0>>,
     <<"PutInfo", 0>>, <<"GetAll", 0>>}
    \cup {<<c, k>> : c \in {"PutItem", "PutNewInfo"}, k \in 1..MaxItems}

\* the records the application hands to Put and PutAll: nil, a record that was
\* never stamped, and records stamped by AllocateId with any field values
StampedRecords ==
    {UserRecord(stamped[i].name, stamped[i].id, sku, tag) :
        i \in DOMAIN stamped, sku \in SkuValues, tag \in TagValues}

UnmarshalableRecords ==
    {[UserRecord(stamped[i].name, stamped[i].id, <<120>>, <<122>>)
        EXCEPT !.marshalErr = TRUE] : i \in DOMAIN stamped}

Storables ==
    {NilStorable, UserRecord("A", NilId, <<120>>, <<122>>)}
    \cup StampedRecords \cup UnmarshalableRecords

Batches == UNION {[1..n -> Storables] : n \in 0..MaxBatch}

StampedIds == {stamped[i].id : i \in DOMAIN stamped}

DoRegister(typename) ==
    /\ Len(items) < MaxItems
    /\ SetReg(Register(Reg, typename))
    /\ last' = [op |-> "Register", err |-> "ok"]
    /\ UNCHANGED <<db, stamped, epochStart, mu, pc, loc>>

DoIndex(typeName, propertyName, indexType) ==
    /\ \A i \in DOMAIN items :
          items[i].TypeName = typeName => Len(items[i].Indexes) < MaxIndexDefs
    /\ SetReg(Index(Reg, typeName, propertyName, indexType))
    /\ last' = [op |-> "Index", err |-> "ok"]
    /\ UNCHANGED <<db, stamped, epochStart, mu, pc, loc>>

\* the call returned out: a panic ends the process, and the next process
\* starts with a new registry
LoadReturns(out) ==
    /\ out.r.info # <<>> => out.r.info[1].NextTypeId <= FirstTypeId + MaxTypeIds
    /\ SetReg(IF out.res = "panic" THEN NewSystemRegistry ELSE out.r)
    /\ db' = out.db
    /\ epochStart' = Len(stamped)
    /\ last' = [op |-> "Load", err |-> out.res]
    /\ UNCHANGED <<stamped, mu, pc, loc>>

DoLoad(f) == LoadReturns(Load(Reg, db, f))

AllocateIdReturns(typeName, out) ==
    /\ Len(stamped) < MaxStamps
    /\ SetReg(out.r)
    /\ db' = out.db
    /\ stamped' = IF out.id = NilId THEN stamped
                  ELSE Append(stamped, [name |-> typeName, id |-> out.id,
                                        ok |-> out.err = "ok"])
    /\ last' = [op |-> "AllocateId", err |-> out.err]
    /\ UNCHANGED <<epochStart, mu, pc, loc>>

DoAllocateId(typeName, io) == AllocateIdReturns(typeName, AllocateId(Reg, db, typeName, io))

StoreReturns(op, out) ==
    /\ db' = out.db
    /\ last' = [op |-> op, err |-> out.err]
    /\ UNCHANGED <<items, info, typeIdIndex, typeNameIndex, stamped, epochStart,
                   mu, pc, loc>>

DoPut(m, io) == StoreReturns("Put", Put(Reg, db, m, io))

DoPutAll(ms, io) == StoreReturns("PutAll", PutAll(Reg, db, ms, io))

\* found: the record was stored when Delete fetched it
DeleteReturns(id, found, out) ==
    /\ db' = out.db
    /\ last' = [op |-> "Delete", err |-> out.err, id |-> id, found |-> found]
    /\ UNCHANGED <<items, info, typeIdIndex, typeNameIndex, stamped, epochStart,
                   mu, pc, loc>>

DoDelete(id, ioGet, ioUpdate) ==
    DeleteReturns(id, Get(Reg, db, id, ioGet).err = "ok",
                  Delete(Reg, db, id, ioGet, ioUpdate))

\* the process ends and a new one starts on the same store
DoRestart ==
    /\ SetReg(NewSystemRegistry)
    /\ epochStart' = Len(stamped)
    /\ last' = [op |-> "Restart", err |-> "ok"]
    /\ UNCHANGED <<db, stamped, mu, pc, loc>>

NoFailure == <<"none", 0>>

Loaded == DOMAIN typeNameIndex # {}

\* The store in use: one process registers type "A", declares its indexes,
\* loads the registry, and then allocates identifiers and stores, re-stores
\* and deletes records of the type.
Next ==
    \/ items = <<>> /\ DoRegister("A")
    \/ ~Loaded /\ \E p \in PropertyNames, t \in IndexTypes : DoIndex("A", p, t)
    \/ ~Loaded /\ items # <<>> /\ DoLoad(NoFailure)
    \/ DoAllocateId("A", TRUE)
    \/ \E m \in Storables : DoPut(m, TRUE)
    \/ \E ms \in Batches : DoPutAll(ms, TRUE)
    \/ \E id \in StampedIds \cup {NilId} : DoDelete(id, TRUE, TRUE)

Spec == Init /\ [][Next]_vars

\* The registry over the life of one store: processes register types, load
\* the registry (any one store call of a Load may fail), allocate identifiers
\* (the persist may fail) and end.
NextReg ==
    \/ \E n \in TypeNames : DoRegister(n)
    \/ \E f \in LoadFailPoints : DoLoad(f)
    \/ \E n \in TypeNames, io \in BOOLEAN : DoAllocateId(n, io)
    \/ DoRestart

SpecReg == Init /\ [][NextReg]_vars

-----------------------------------------------------------------------------
(* Concurrent callers.  A caller's steps are the places where another      *)
(* goroutine can run between two accesses to the registry's memory or two  *)
(* transactions of the store.  The store's own calls into the type manager *)
(* are taken as answered.                                                  *)

AllIdle == \A c \in Callers : pc[c] = "idle"

InFlight == Cardinality({c \in Callers : pc[c] # "idle"})

\* a goroutine calls AllocateId with a record of type typeName
AllocateIdCall(c, typeName) ==
    /\ pc[c] = "idle"
    /\ Len(stamped) + InFlight < MaxStamps
    /\ pc' = [pc EXCEPT ![c] = "Lock"]
    /\ loc' = [loc EXCEPT ![c] = [typeName |-> typeName]]
    /\ UNCHANGED <<items, info, typeIdIndex, typeNameIndex, db, stamped, epochStart,
                   last, mu>>

\* AllocateId entered without waiting for the lock to be free
AllocateIdLockNotExclusive(c) ==
    /\ pc[c] = "Lock"
    /\ mu' = <<c>>
    /\ pc' = [pc EXCEPT ![c] = "Lookup"]
    /\ UNCHANGED <<items, info, typeIdIndex, typeNameIndex, db, stamped, epochStart,
                   last, loc>>

\* r.mu.Lock()
AllocateIdLock(c) ==
    /\ pc[c] = "Lock"
    /\ mu = <<>>
    /\ mu' = <<c>>
    /\ pc' = [pc EXCEPT ![c] = "Lookup"]
    /\ UNCHANGED <<items, info, typeIdIndex, typeNameIndex, db, stamped, epochStart,
                   last, loc>>

\* info, found := r.typeNameIndex[item.GetTypeName()]; the return of
\* ErrTypeNotFound runs the deferred Unlock
AllocateIdLookup(c) ==
    /\ pc[c] = "Lookup"
    /\ IF loc[c].typeName \in DOMAIN typeNameIndex
       THEN /\ loc' = [loc EXCEPT ![c] = [typeName |-> loc[c].typeName,
                                          p |-> typeNameIndex[loc[c].typeName]]]
            /\ pc' = [pc EXCEPT ![c] = "NewId"]
            /\ UNCHANGED <<mu, last>>
       ELSE /\ loc' = [loc EXCEPT ![c] = <<>>]
            /\ pc' = [pc EXCEPT ![c] = "idle"]
            /\ mu' = <<>>
            /\ last' = [op |-> "AllocateId", err |-> "ErrTypeNotFound"]
    /\ UNCHANGED <<items, info, typeIdIndex, typeNameIndex, db, stamped, epochStart>>

\* id := store.NewId(info.TypeId, info.NextObjectId)
AllocateIdNewId(c) ==
    /\ pc[c] = "NewId"
    /\ loc' = [loc EXCEPT ![c] =
                  [typeName |-> loc[c].typeName, p |-> loc[c].p,
                   id |-> NewId(items[loc[c].p].TypeId, items[loc[c].p].NextObjectId)]]
    /\ pc' = [pc EXCEPT ![c] = "Increment"]
    /\ UNCHANGED <<items, info, typeIdIndex, typeNameIndex, db, stamped, epochStart,
                   last, mu>>

\* info.NextObjectId++
AllocateIdIncrement(c) ==
    /\ pc[c] = "Increment"
    /\ items' = [items EXCEPT ![loc[c].p].NextObjectId = @ + 1]
    /\ pc' = [pc EXCEPT ![c] = "Persist"]
    /\ UNCHANGED <<info, typeIdIndex, typeNameIndex, db, stamped, epochStart, last,
                   mu, loc>>

\* the call's r.store.Put(info) returned out, and the call returns: the
\* record is stamped (item.SetId) and the deferred Unlock runs.  overlap:
\* another caller was inside AllocateId at that moment
AllocateIdPersistReturns(c, out) ==
    /\ db' = out.db
    /\ stamped' = Append(stamped, [name |-> loc[c].typeName, id |-> loc[c].id,
                                   ok |-> out.err = "ok",
                                   overlap |-> \E k \in Callers \ {c} : pc[k] # "idle"])
    /\ mu' = <<>>
    /\ pc' = [pc EXCEPT ![c] = "idle"]
    /\ loc' = [loc EXCEPT ![c] = <<>>]
    /\ last' = [op |-> "AllocateId", err |-> out.err]
    /\ UNCHANGED <<items, info, typeIdIndex, typeNameIndex, epochStart>>

\* item.SetId(id); err := r.store.Put(info); return
AllocateIdPersist(c, io) ==
    /\ pc[c] = "Persist"
    /\ AllocateIdPersistReturns(c, Put(Reg, db, items[loc[c].p], io))

\* One process whose goroutines call AllocateId concurrently; Register and
\* the process's Load hold the registry lock for their whole run.
NextAlloc ==
    \/ \E n \in TypeNames : mu = <<>> /\ DoRegister(n)
    \/ mu = <<>> /\ ~Loaded /\ DoLoad(NoFailure)
    \/ \E c \in Callers, n \in TypeNames : AllocateIdCall(c, n)
    \/ \E c \in Callers : AllocateIdLock(c)
    \/ \E c \in Callers : AllocateIdLookup(c)
    \/ \E c \in Callers : AllocateIdNewId(c)
    \/ \E c \in Callers : AllocateIdIncrement(c)
    \/ \E c \in Callers, io \in BOOLEAN : AllocateIdPersist(c, io)

SpecAlloc == Init /\ [][NextAlloc]_vars

-----------------------------------------------------------------------------

\* Delete's Get returned got.  The call returns on an absent record and on
\* any other error of the Get; otherwise it goes on to its Update with the
\* record it fetched.  base: the store's content at the Get
DeleteGetReturns(c, id, got) ==
    /\ IF got.err = "ok"
       THEN /\ pc' = [pc EXCEPT ![c] = "Update"]
            /\ loc' = [loc EXCEPT ![c] = [id |-> id, got |-> got, base |-> db,
                                          during |-> <<>>]]
            /\ UNCHANGED last
       ELSE /\ last' = [op |-> "Delete", id |-> id, found |-> FALSE,
                        err |-> DeleteGot(Reg, db, id, got, TRUE).err]
            /\ loc' = [loc EXCEPT ![c] = <<>>]
            /\ UNCHANGED pc
    /\ UNCHANGED <<items, info, typeIdIndex, typeNameIndex, db, stamped, epochStart, mu>>

\* a goroutine calls Delete(id): the nil check and bs.Get(id), a View
\* transaction of its own
DeleteGet(c, id) ==
    /\ pc[c] = "idle"
    /\ IF id = NilId
       THEN /\ last' = [op |-> "Delete", id |-> id, found |-> FALSE, err |-> "ErrIdIsNil"]
            /\ loc' = [loc EXCEPT ![c] = <<>>]
            /\ UNCHANGED <<items, info, typeIdIndex, typeNameIndex, db, stamped,
                           epochStart, mu, pc>>
       ELSE DeleteGetReturns(c, id, Get(Reg, db, id, TRUE))

\* Delete's Update transaction returned out, and the call returns.  The
\* caller's locals are kept as the history of the call: result is the store's
\* content it left
DeleteUpdateReturns(c, out) ==
    /\ db' = out.db
    /\ pc' = [pc EXCEPT ![c] = "idle"]
    /\ loc' = [loc EXCEPT ![c] = [id |-> loc[c].id, base |-> loc[c].base,
                                  during |-> loc[c].during, result |-> out.db]]
    /\ last' = [op |-> "Delete", id |-> loc[c].id, found |-> TRUE, err |-> out.err]
    /\ UNCHANGED <<items, info, typeIdIndex, typeNameIndex, stamped, epochStart, mu>>

\* bs.db.Update(...): the removal of the primary entry and of the index
\* entries built from the record the Get fetched
DeleteUpdate(c) ==
    /\ pc[c] = "Update"
    /\ DeleteUpdateReturns(c, DeleteGot(Reg, db, loc[c].id, loc[c].got, TRUE))

\* another goroutine's Put(m) runs, as one transaction, between the Get and
\* the Update of caller c's Delete
PutDuringDeleteReturns(c, m, out) ==
    /\ db' = out.db
    /\ loc' = [loc EXCEPT ![c].during = <<m>>]
    /\ last' = [op |-> "Put", err |-> out.err]
    /\ UNCHANGED <<items, info, typeIdIndex, typeNameIndex, stamped, epochStart, mu, pc>>

PutDuringDelete(c, m) ==
    /\ pc[c] = "Update"
    /\ loc[c].during = <<>>
    /\ PutDuringDeleteReturns(c, m, Put(Reg, db, m, TRUE))

\* The store in use by two goroutines: one process sets up type "A" and
\* stores records; then one goroutine deletes a record while the other puts.
NextDel ==
    \/ items = <<>> /\ DoRegister("A")
    \/ ~Loaded /\ \E p \in PropertyNames, t \in IndexTypes : DoIndex("A", p, t)
    \/ ~Loaded /\ items # <<>> /\ DoLoad(NoFailure)
    \/ AllIdle /\ DoAllocateId("A", TRUE)
    \/ AllIdle /\ \E m \in Storables : DoPut(m, TRUE)
    \/ \E id \in StampedIds \cup {NilId} : DeleteGet(1, id)
    \/ DeleteUpdate(1)
    \/ \E m \in Storables : PutDuringDelete(1, m)

SpecDel == Init /\ [][NextDel]_vars

-----------------------------------------------------------------------------

\* an identifier of a type id that no registry ever allocates
UnregisteredId == NewId(FirstTypeId - 1, FirstItemObjectId)

\* the identifiers the application hands to Get, Exists and Delete
LookupIds == StampedIds \cup {NilId, UnregisteredId}

\* the type ids the application hands to GetAll
LookupTypeIds == {id[1] : id \in StampedIds \cup {UnregisteredId}} \cup DOMAIN typeIdIndex

ReadReturns(call) ==
    /\ last' = call
    /\ UNCHANGED <<items, info, typeIdIndex, typeNameIndex, db, stamped, epochStart,
                   mu, pc, loc>>

DoGet(id) ==
    ReadReturns([op |-> "Get", id |-> id, err |-> Get(Reg, db, id, TRUE).err])

DoExists(id) ==
    ReadReturns([op |-> "Exists", id |-> id, err |-> Exists(Reg, db, id, TRUE).err,
                 exists |-> Exists(Reg, db, id, TRUE).exists])

DoGetAll(typeId) ==
    ReadReturns([op |-> "GetAll", typeId |-> typeId,
                 err |-> GetAll(Reg, db, typeId, TRUE).err,
                 n |-> Len(GetAll(Reg, db, typeId, TRUE).ms)])

DoGetAllByTypeName(typeName) ==
    ReadReturns([op |-> "GetAllByTypeName", typeName |-> typeName,
                 err |-> GetAllByTypeName(Reg, db, typeName, TRUE).err,
                 n |-> Len(GetAllByTypeName(Reg, db, typeName, TRUE).ms)])

\* The store read and written record by record: one process registers its
\* types, declares an index, loads the registry, and then allocates
\* identifiers and puts, gets, lists and deletes records.
NextCrud ==
    \/ ~Loaded /\ \E n \in TypeNames : DoRegister(n)
    \/ ~Loaded /\ \E t \in IndexTypes : DoIndex("A", "Sku", t)
    \/ ~Loaded /\ items # <<>> /\ DoLoad(NoFailure)
    \/ \E n \in TypeNames : DoAllocateId(n, TRUE)
    \/ \E m \in Storables : DoPut(m, TRUE)
    \/ \E id \in LookupIds : DoDelete(id, TRUE, TRUE)
    \/ \E id \in LookupIds : DoGet(id)
    \/ \E id \in LookupIds : DoExists(id)
    \/ \E t \in LookupTypeIds : DoGetAll(t)
    \/ \E n \in TypeNames : DoGetAllByTypeName(n)

SpecCrud == Init /\ [][NextCrud]_vars

-----------------------------------------------------------------------------

\* the callers holding the registry's read lock
Readers == {c \in Callers : pc[c] \in {"GetTypeIdRead", "GetTypeNameRead"}}

\* r.mu.Lock() of Load: waits for the writer and for every reader
LoadLock(c) ==
    /\ pc[c] = "idle"
    /\ mu = <<>>
    /\ Readers = {}
    /\ mu' = <<c>>
    /\ pc' = [pc EXCEPT ![c] = "LoadReconcile"]
    /\ UNCHANGED <<items, info, typeIdIndex, typeNameIndex, db, stamped, epochStart,
                   last, loc>>

\* Load up to its loop over r.items returned out: the Registry Info and the
\* persisted items are fetched, the in-memory items updated and the new
\* types allocated; the lookup maps are still the old ones.  An error returns
\* (the deferred Unlock runs); a panic ends the process.
LoadReconcileReturns(c, out) ==
    /\ out.r.info # <<>> => out.r.info[1].NextTypeId <= FirstTypeId + MaxTypeIds
    /\ db' = out.db
    /\ UNCHANGED stamped
    /\ IF out.res = "ok"
       THEN /\ items' = out.r.items
            /\ info' = out.r.info
            /\ pc' = [pc EXCEPT ![c] = "LoadMakeMaps"]
            /\ UNCHANGED <<typeIdIndex, typeNameIndex, epochStart, last, mu, loc>>
       ELSE /\ SetReg(IF out.res = "panic" THEN NewSystemRegistry
                      ELSE [out.r EXCEPT !.typeIdIndex = typeIdIndex,
                                         !.typeNameIndex = typeNameIndex])
            /\ epochStart' = Len(stamped)
            /\ last' = [op |-> "Load", err |-> out.res]
            /\ mu' = <<>>
            /\ pc' = IF out.res = "panic" THEN [k \in Callers |-> "idle"]
                     ELSE [pc EXCEPT ![c] = "idle"]
            /\ loc' = IF out.res = "panic" THEN [k \in Callers |-> <<>>] ELSE loc

LoadReconcile(c, f) ==
    /\ pc[c] = "LoadReconcile"
    /\ LoadReconcileReturns(c, Load(Reg, db, f))

\* r.typeIdIndex = make(...); r.typeNameIndex = make(...)
LoadMakeMaps(c) ==
    /\ pc[c] = "LoadMakeMaps"
    /\ typeIdIndex' = EmptyIndex
    /\ typeNameIndex' = EmptyIndex
    /\ pc' = [pc EXCEPT ![c] = "LoadIdEntry"]
    /\ loc' = [loc EXCEPT ![c] = [k |-> 1]]
    /\ UNCHANGED <<items, info, db, stamped, epochStart, last, mu>>

\* r.typeIdIndex[ri.TypeId] = ri for item k; after the last item Load
\* returns nil and the deferred Unlock runs
LoadIdEntry(c) ==
    /\ pc[c] = "LoadIdEntry"
    /\ IF loc[c].k > Len(items)
       THEN /\ mu' = <<>>
            /\ pc' = [pc EXCEPT ![c] = "idle"]
            /\ loc' = [loc EXCEPT ![c] = <<>>]
            /\ epochStart' = Len(stamped)
            /\ last' = [op |-> "Load", err |-> "ok"]
            /\ UNCHANGED typeIdIndex
       ELSE /\ typeIdIndex' = (items[loc[c].k].TypeId :> loc[c].k) @@ typeIdIndex
            /\ pc' = [pc EXCEPT ![c] = "LoadNameEntry"]
            /\ UNCHANGED <<mu, loc, epochStart, last>>
    /\ UNCHANGED <<items, info, typeNameIndex, db, stamped>>

\* r.typeNameIndex[ri.TypeName] = ri for item k
LoadNameEntry(c) ==
    /\ pc[c] = "LoadNameEntry"
    /\ typeNameIndex' = (items[loc[c].k].TypeName :> loc[c].k) @@ typeNameIndex
    /\ pc' = [pc EXCEPT ![c] = "LoadIdEntry"]
    /\ loc' = [loc EXCEPT ![c] = [k |-> loc[c].k + 1]]
    /\ UNCHANGED <<items, info, typeIdIndex, db, stamped, epochStart, last, mu>>

\* a goroutine calls GetTypeId(typeName): r.mu.RLock() waits for the writer
GetTypeIdRLock(c, typeName) ==
    /\ pc[c] = "idle"
    /\ mu = <<>>
    /\ pc' = [pc EXCEPT ![c] = "GetTypeIdRead"]
    /\ loc' = [loc EXCEPT ![c] = [typeName |-> typeName]]
    /\ UNCHANGED <<items, info, typeIdIndex, typeNameIndex, db, stamped, epochStart,
                   last, mu>>

\* GetTypeId reads the map and returns (the deferred RUnlock runs); with a
\* type id in hand the goroutine goes on to call GetTypeName
GetTypeIdRead(c) ==
    /\ pc[c] = "GetTypeIdRead"
    /\ IF GetTypeId(Reg, loc[c].typeName) = <<>>
       THEN /\ pc' = [pc EXCEPT ![c] = "idle"]
            /\ loc' = [loc EXCEPT ![c] = <<>>]
       ELSE /\ pc' = [pc EXCEPT ![c] = "GetTypeNameRLock"]
            /\ loc' = [loc EXCEPT ![c] = [typeName |-> loc[c].typeName,
                                          t |-> GetTypeId(Reg, loc[c].typeName)[1]]]
    /\ UNCHANGED <<items, info, typeIdIndex, typeNameIndex, db, stamped, epochStart,
                   last, mu>>

\* GetTypeName(t): r.mu.RLock()
GetTypeNameRLock(c) ==
    /\ pc[c] = "GetTypeNameRLock"
    /\ mu = <<>>
    /\ pc' = [pc EXCEPT ![c] = "GetTypeNameRead"]
    /\ UNCHANGED <<items, info, typeIdIndex, typeNameIndex, db, stamped, epochStart,
                   last, mu, loc>>

\* GetTypeName reads the map and returns.  The caller's locals are kept as
\* the history of its two lookups: name is <<>> (type-not-found) or <<n>>
GetTypeNameRead(c) ==
    /\ pc[c] = "GetTypeNameRead"
    /\ pc' = [pc EXCEPT ![c] = "idle"]
    /\ loc' = [loc EXCEPT ![c] = [typeName |-> loc[c].typeName, t |-> loc[c].t,
                                  name |-> GetTypeName(Reg, loc[c].t)]]
    /\ UNCHANGED <<items, info, typeIdIndex, typeNameIndex, db, stamped, epochStart,
                   last, mu>>

\* the store call of Load that may fail in the processes with lookups
LookupFailPoints == {NoFailure, <<"PutNewInfo", 1>>}

\* Processes whose goroutines look types up while others register types and
\* load the registry; a Load that panics ends its process, and the next one
\* starts on the same store.
NextLookup ==
    \/ \E n \in TypeNames : mu = <<>> /\ Readers = {} /\ DoRegister(n)
    \/ \E c \in Callers : LoadLock(c)
    \/ \E c \in Callers, f \in LookupFailPoints : LoadReconcile(c, f)
    \/ \E c \in Callers : LoadMakeMaps(c)
    \/ \E c \in Callers : LoadIdEntry(c)
    \/ \E c \in Callers : LoadNameEntry(c)
    \/ \E c \in Callers, n \in TypeNames : GetTypeIdRLock(c, n)
    \/ \E c \in Callers : GetTypeIdRead(c)
    \/ \E c \in Callers : GetTypeNameRLock(c)
    \/ \E c \in Callers : GetTypeNameRead(c)

SpecLookup == Init /\ [][NextLookup]_vars

-----------------------------------------------------------------------------

\* The definition list a type manager returns from Indexes() gains
\* IndexDefinition{PropertyName, Type, DataType}.  SystemRegistry.Index leaves
\* DataType at StringIndex; the store switches on whatever data type the
\* definitions of its type manager carry.
IndexTyped(r, typeName, propertyName, indexType, dataType) ==
    [r EXCEPT !.items = [i \in DOMAIN @ |->
        IF @[i].TypeName = typeName
        THEN [@[i] EXCEPT !.Indexes = Append(@, [PropertyName |-> propertyName,
                                                 Type |-> indexType,
                                                 DataType |-> dataType])]
        ELSE @[i]]]

DataTypes == {StringIndex, Int64Index, Float64Index, BoolIndex, DateTimeIndex}

\* a string field of the application struct and a name that is no field of it
TypedPropertyNames == {"Sku", "Missing"}

DoIndexTyped(typeName, propertyName, indexType, dataType) ==
    /\ \A i \in DOMAIN items :
          items[i].TypeName = typeName => Len(items[i].Indexes) < MaxIndexDefs
    /\ SetReg(IndexTyped(Reg, typeName, propertyName, indexType, dataType))
    /\ last' = [op |-> "Index", err |-> "ok"]
    /\ UNCHANGED <<db, stamped, epochStart, mu, pc, loc>>

\* Put returned out, or panicked: the panic leaves the transaction rolled
\* back and ends the process
PutReturnsOrPanics(out) ==
    /\ db' = out.db
    /\ last' = [op |-> "Put", err |-> out.err]
    /\ SetReg(IF out.err = "panic" THEN NewSystemRegistry ELSE Reg)
    /\ epochStart' = IF out.err = "panic" THEN Len(stamped) ELSE epochStart
    /\ UNCHANGED <<stamped, mu, pc, loc>>

DoPutTyped(m) == PutReturnsOrPanics(Put(Reg, db, m, TRUE))

\* The store with indexes of every data type: one process after the other
\* registers type "A", declares indexes with a data type on a string property
\* and on a missing one, loads the registry, allocates identifiers and stores
\* records.
NextTyped ==
    \/ items = <<>> /\ DoRegister("A")
    \/ ~Loaded /\ \E p \in TypedPropertyNames, t \in IndexTypes, dt \in DataTypes :
                      DoIndexTyped("A", p, t, dt)
    \/ ~Loaded /\ items # <<>> /\ DoLoad(NoFailure)
    \/ DoAllocateId("A", TRUE)
    \/ \E m \in StampedRecords : DoPutTyped(m)

SpecTyped == Init /\ [][NextTyped]_vars

-----------------------------------------------------------------------------

\* an application struct with the one property Value of Go type goType
TypedRecord(id, goType, v) ==
    [kind |-> "typed", TypeName |-> "A", Id |-> id, goType |-> goType, Value |-> v,
     marshalErr |-> FALSE]

\* an index definition on that property
IndexOnValue(indexType, dataType) ==
    [PropertyName |-> "Value", Type |-> indexType, DataType |-> dataType]

\* the property values the codec is applied to: every int64 and every float64
\* bit pattern of the scaled width, both bools, instants of one day in three
\* zones with whole and fractional seconds, and strings with and without a
\* zero byte
TimeValues == [hour : 1..2, sec : 0..1, cs : {0, 5, 50}, off : {0 - 1, 0, 1}]
StringValues == UNION {[1..n -> {NullByte, 97}] : n \in 0..2}
KeyIds == {NewId(FirstTypeId, 1), NewId(FirstTypeId, 2)}

\* updateIndexes encodes the property of two records under an index of the
\* data type: the switch on index.DataType for each of them
DoEncode(dataType, goType, a, b) ==
    /\ last' = [op |-> "Encode", dataType |-> dataType, a |-> a, b |-> b,
                ea |-> propertyValueBytes(TypedRecord(NewId(FirstTypeId, 1), goType, a),
                                          IndexOnValue(NonUniqueIndex, dataType)).bytes,
                eb |-> propertyValueBytes(TypedRecord(NewId(FirstTypeId, 2), goType, b),
                                          IndexOnValue(NonUniqueIndex, dataType)).bytes]
    /\ UNCHANGED <<items, info, typeIdIndex, typeNameIndex, db, stamped, epochStart,
                   mu, pc, loc>>

\* The index codec applied to one pair of property values of a data type.
NextCodec ==
    \/ last.op = "New" /\ \E a, b \in StringValues : DoEncode(StringIndex, "string", a, b)
    \/ last.op = "New" /\ \E a, b \in Int64Values : DoEncode(Int64Index, "int64", a, b)
    \/ last.op = "New" /\ \E a, b \in Float64Bits : DoEncode(Float64Index, "float64", a, b)
    \/ last.op = "New" /\ \E a, b \in BOOLEAN : DoEncode(BoolIndex, "bool", a, b)
    \/ last.op = "New" /\ \E a, b \in TimeValues : DoEncode(DateTimeIndex, "time.Time", a, b)

SpecCodec == Init /\ [][NextCodec]_vars

-----------------------------------------------------------------------------

\* updateIndexes builds the index keys of two records under an index of the
\* type and data type: the switch on index.DataType, then buildIndexKey
DoBuildIndexKey(indexType, dataType, goType, a, ida, b, idb) ==
    /\ last' = [op |-> "buildIndexKey", indexType |-> indexType, dataType |-> dataType,
                a |-> a, ida |-> ida, b |-> b, idb |-> idb,
                ka |-> buildIndexKey(indexType,
                          propertyValueBytes(TypedRecord(ida, goType, a),
                                             IndexOnValue(indexType, dataType)).bytes,
                          ida),
                kb |-> buildIndexKey(indexType,
                          propertyValueBytes(TypedRecord(idb, goType, b),
                                             IndexOnValue(indexType, dataType)).bytes,
                          idb)]
    /\ UNCHANGED <<items, info, typeIdIndex, typeNameIndex, db, stamped, epochStart,
                   mu, pc, loc>>

\* The index keys of one pair of records under an index of a type and a data
\* type.
NextKeys ==
    \/ last.op = "New" /\ \E t \in IndexTypes, a, b \in StringValues, ida, idb \in KeyIds :
           DoBuildIndexKey(t, StringIndex, "string", a, ida, b, idb)
    \/ last.op = "New" /\ \E t \in IndexTypes, a, b \in Int64Values, ida, idb \in KeyIds :
           DoBuildIndexKey(t, Int64Index, "int64", a, ida, b, idb)
    \/ last.op = "New" /\ \E t \in IndexTypes, a, b \in Float64Bits, ida, idb \in KeyIds :
           DoBuildIndexKey(t, Float64Index, "float64", a, ida, b, idb)
    \/ last.op = "New" /\ \E t \in IndexTypes, a, b \in BOOLEAN, ida, idb \in KeyIds :
           DoBuildIndexKey(t, BoolIndex, "bool", a, ida, b, idb)
    \/ last.op = "New" /\ \E t \in IndexTypes, a, b \in TimeValues, ida, idb \in KeyIds :
           DoBuildIndexKey(t, DateTimeIndex, "time.Time", a, ida, b, idb)

SpecKeys == Init /\ [][NextKeys]_vars

-----------------------------------------------------------------------------

\* the identifiers handed to String: every pair of the scaled int64 range
AllIds == {NewId(t, o) : t, o \in MinInt64..MaxInt64}

\* the strings handed to IdFromString: separators, a sign, base-16 digits and
\* a byte that is no digit
IdTextBytes == {DashByte, 43, 49, 102, 103}
IdTexts == UNION {[1..n -> IdTextBytes] : n \in 0..MaxIdTextLen}

\* id.String() returns the text of an identifier
DoString(id) ==
    /\ last' = [op |-> "String", id |-> id, s |-> IdString(id)]
    /\ UNCHANGED <<items, info, typeIdIndex, typeNameIndex, db, stamped, epochStart,
                   mu, pc, loc>>

\* IdFromString(s) returns; from is the identifier s was rendered from, <<>>
\* for a string of the application
DoIdFromString(s, from) ==
    /\ last' = [op |-> "IdFromString", s |-> s, from |-> from, out |-> IdFromString(s)]
    /\ UNCHANGED <<items, info, typeIdIndex, typeNameIndex, db, stamped, epochStart,
                   mu, pc, loc>>

\* Identifiers are rendered and the text parsed back; strings of the
\* application are parsed.
NextId ==
    \/ last.op = "New" /\ \E id \in AllIds : DoString(id)
    \/ last.op = "String" /\ DoIdFromString(last.s, <<last.id>>)
    \/ last.op = "New" /\ \E s \in IdTexts : DoIdFromString(s, <<>>)

SpecId == Init /\ [][NextId]_vars

-----------------------------------------------------------------------------

-----------------------------------------------------------------------------
(* The registry lock and the engine's write transaction, call by call.     *)
(* r.mu is a sync.RWMutex: Lock waits until no one holds it, and RLock     *)
(* waits while a writer holds it, the calling goroutine included.  The     *)
(* engine runs one db.Update at a time.  A call the store makes while it   *)
(* serves a call of the registry runs on the registry's goroutine: loc[c]  *)
(* holds the record being put, the place Put returns to and its result.    *)

Frame ==
    [op |-> "", typeName |-> "", m |-> NilStorable, ret |-> "", err |-> "ok",
     k |-> 0, which |-> "", info |-> <<>>, id |-> NilId]

\* the caller is inside the function it handed to db.Update
InUpdate(c) == pc[c] = "Indexes"

\* db.Update can begin: no write transaction is open
TxFree == \A k \in Callers : ~InUpdate(k)

\* the records the application hands to Put: those of Storables and one
\* with an identifier it made itself
PutRecords == Storables \cup {UserRecord("A", UnregisteredId, <<120>>, <<122>>)}

\* Put returns e to the place it was called from
PutReturn(c, e) ==
    /\ pc' = [pc EXCEPT ![c] = loc[c].ret]
    /\ loc' = [loc EXCEPT ![c].err = e]

\* a goroutine calls Load(s)
LoadCall(c) ==
    /\ pc[c] = "idle"
    /\ pc' = [pc EXCEPT ![c] = "Lock"]
    /\ loc' = [loc EXCEPT ![c] = [Frame EXCEPT !.op = "Load"]]
    /\ UNCHANGED <<items, info, typeIdIndex, typeNameIndex, db, stamped, epochStart,
                   last, mu>>

\* a goroutine calls AllocateId with a record of type typeName
AllocateIdEnter(c, typeName) ==
    /\ pc[c] = "idle"
    /\ pc' = [pc EXCEPT ![c] = "Lock"]
    /\ loc' = [loc EXCEPT ![c] = [Frame EXCEPT !.op = "AllocateId",
                                               !.typeName = typeName]]
    /\ UNCHANGED <<items, info, typeIdIndex, typeNameIndex, db, stamped, epochStart,
                   last, mu>>

\* r.mu.Lock() of Load and of AllocateId
RegistryLock(c) ==
    /\ pc[c] = "Lock"
    /\ mu = <<>>
    /\ mu' = <<c>>
    /\ pc' = [pc EXCEPT ![c] = IF loc[c].op = "Load" THEN "LoadBuckets"
                               ELSE "AllocateIdBody"]
    /\ UNCHANGED <<items, info, typeIdIndex, typeNameIndex, db, stamped, epochStart,
                   last, loc>>

\* the call returns e: the deferred r.mu.Unlock() runs
RegistryReturn(c, op, e) ==
    /\ mu' = <<>>
    /\ pc' = [pc EXCEPT ![c] = "idle"]
    /\ loc' = [loc EXCEPT ![c] = <<>>]
    /\ last' = [op |-> op, err |-> e]

\* s.AllocateBucketIfNeeded for the two reserved names, each a db.Update of
\* its own; the results are dropped
LoadBuckets(c, io1, io2) ==
    /\ pc[c] = "LoadBuckets"
    /\ TxFree
    /\ db' = AllocateBucketIfNeeded(
                 AllocateBucketIfNeeded(db, REGISTRY_INFO_TYPE_NAME, io1),
                 REGISTRY_ITEM_TYPE_NAME, io2)
    /\ pc' = [pc EXCEPT ![c] = "LoadGet"]
    /\ UNCHANGED <<items, info, typeIdIndex, typeNameIndex, stamped, epochStart,
                   last, mu, loc>>

\* item, err := s.Get(infoId) returned got: the Registry Info found, the call
\* of s.Put(info) for a new one, or the return of another error
LoadGot(c, got) ==
    IF got.err = "ok"
    THEN /\ pc' = [pc EXCEPT ![c] = "LoadGetAll"]
         /\ loc' = [loc EXCEPT ![c].info = <<got.m>>]
         /\ UNCHANGED <<mu, last>>
    ELSE IF got.err = "ErrKeyNotFound"
    THEN /\ pc' = [pc EXCEPT ![c] = "Put"]
         /\ loc' = [loc EXCEPT ![c].info = <<NewRegistryInfo>>,
                               ![c].m = NewRegistryInfo,
                               ![c].ret = "LoadGetAll"]
         /\ UNCHANGED <<mu, last>>
    ELSE RegistryReturn(c, "Load", got.err)

LoadGet(c, io) ==
    /\ pc[c] = "LoadGet"
    /\ LoadGot(c, Get(Reg, db, NewId(REGISTRY_INFO_TYPE_ID, REGISTRY_INFO_OBJECT_ID), io))
    /\ UNCHANGED <<items, info, typeIdIndex, typeNameIndex, db, stamped, epochStart>>

\* r.info = info; types, err := s.GetAll(REGISTRY_ITEM_TYPE_ID) returned all;
\* the loop of updateTypeInfo
LoadGotAll(c, all) ==
    IF all.err # "ok"
    THEN /\ RegistryReturn(c, "Load", all.err)
         /\ UNCHANGED items
    ELSE /\ items' = updateAllTypeInfo(items, all.ms)
         /\ pc' = [pc EXCEPT ![c] = "LoadNewTypes"]
         /\ loc' = [loc EXCEPT ![c].k = 1]
         /\ UNCHANGED <<mu, last>>

LoadGetAll(c, io) ==
    /\ pc[c] = "LoadGetAll"
    /\ info' = loc[c].info
    /\ LoadGotAll(c, GetAll([Reg EXCEPT !.info = loc[c].info], db,
                            REGISTRY_ITEM_TYPE_ID, io))
    /\ UNCHANGED <<typeIdIndex, typeNameIndex, db, stamped, epochStart>>

\* the assignments of allocateNewType to items[i] and to r.info
allocateNewTypeAssign(r, i) ==
    [r EXCEPT !.items[i].TypeId = r.info[1].NextTypeId,
              !.items[i].Id = NewId(REGISTRY_ITEM_TYPE_ID, r.info[1].NextObjectId),
              !.items[i].NextObjectId = FirstItemObjectId,
              !.info[1].NextTypeId = @ + 1,
              !.info[1].NextObjectId = @ + 1]

\* allocateNewType for item i: r1 is the registry after its assignments;
\* it calls s.Put(item)
LoadNewType(c, i, r1) ==
    /\ SetReg(r1)
    /\ pc' = [pc EXCEPT ![c] = "Put"]
    /\ loc' = [loc EXCEPT ![c].k = i, ![c].which = "item", ![c].m = r1.items[i],
                          ![c].ret = "allocateNewTypePut"]

\* the items from position k on that have no type id yet
NewTypesFrom(k) == {i \in k..Len(items) : items[i].TypeId = 0}

\* the loop "Check any types that may be new types", at item loc[c].k
LoadNewTypes(c) ==
    /\ pc[c] = "LoadNewTypes"
    /\ IF NewTypesFrom(loc[c].k) = {}
       THEN /\ pc' = [pc EXCEPT ![c] = "LoadBuild"]
            /\ UNCHANGED <<items, info, typeIdIndex, typeNameIndex, loc>>
       ELSE \E i \in NewTypesFrom(loc[c].k) :
               /\ \A j \in NewTypesFrom(loc[c].k) : i <= j
               /\ LoadNewType(c, i, allocateNewTypeAssign(Reg, i))
    /\ UNCHANGED <<db, stamped, epochStart, last, mu>>

\* err := s.Put(...) of allocateNewType returned: a failure panics (the
\* process ends and the next one starts with a new registry); after the
\* item the Registry Info is put, after the Registry Info the loop goes on
AllocateNewTypePut(c) ==
    /\ pc[c] = "allocateNewTypePut"
    /\ IF loc[c].err # "ok"
       THEN /\ SetReg(NewSystemRegistry)
            /\ mu' = <<>>
            /\ pc' = [k \in Callers |-> "idle"]
            /\ loc' = [k \in Callers |-> <<>>]
            /\ last' = [op |-> "Load", err |-> "panic"]
       ELSE /\ IF loc[c].which = "item"
               THEN /\ pc' = [pc EXCEPT ![c] = "Put"]
                    /\ loc' = [loc EXCEPT ![c].which = "info", ![c].m = info[1]]
               ELSE /\ pc' = [pc EXCEPT ![c] = "LoadNewTypes"]
                    /\ loc' = [loc EXCEPT ![c].k = @ + 1]
            /\ UNCHANGED <<items, info, typeIdIndex, typeNameIndex, mu, last>>
    /\ UNCHANGED <<db, stamped, epochStart>>

\* the two maps are built and Load returns nil
LoadBuild(c) ==
    /\ pc[c] = "LoadBuild"
    /\ typeIdIndex' = BuildTypeIdIndex(items)
    /\ typeNameIndex' = BuildTypeNameIndex(items)
    /\ epochStart' = Len(stamped)
    /\ RegistryReturn(c, "Load", "ok")
    /\ UNCHANGED <<items, info, db, stamped>>

\* AllocateId under the lock: the lookup, NewId, the increment, SetId and
\* the call of r.store.Put(info)
AllocateIdBody(c) ==
    /\ pc[c] = "AllocateIdBody"
    /\ IF loc[c].typeName \notin DOMAIN typeNameIndex
       THEN /\ pc' = [pc EXCEPT ![c] = "AllocateIdReturn"]
            /\ loc' = [loc EXCEPT ![c].err = "ErrTypeNotFound"]
            /\ UNCHANGED items
       ELSE /\ Len(stamped) < MaxStamps
            /\ items' = [items EXCEPT ![typeNameIndex[loc[c].typeName]].NextObjectId
                                          = @ + 1]
            /\ pc' = [pc EXCEPT ![c] = "Put"]
            /\ loc' = [loc EXCEPT
                   ![c].id = NewId(items[typeNameIndex[loc[c].typeName]].TypeId,
                                   items[typeNameIndex[loc[c].typeName]].NextObjectId),
                   ![c].m = items'[typeNameIndex[loc[c].typeName]],
                   ![c].ret = "AllocateIdReturn"]
    /\ UNCHANGED <<info, typeIdIndex, typeNameIndex, db, stamped, epochStart, last, mu>>

\* AllocateId returns ErrTypeNotFound or what r.store.Put returned
AllocateIdReturn(c) ==
    /\ pc[c] = "AllocateIdReturn"
    /\ stamped' = IF loc[c].id = NilId THEN stamped
                  ELSE Append(stamped, [name |-> loc[c].typeName, id |-> loc[c].id,
                                        ok |-> loc[c].err = "ok"])
    /\ RegistryReturn(c, "AllocateId", loc[c].err)
    /\ UNCHANGED <<items, info, typeIdIndex, typeNameIndex, db, epochStart>>

\* the application calls Put(m)
PutCall(c, m) ==
    /\ pc[c] = "idle"
    /\ pc' = [pc EXCEPT ![c] = "Put"]
    /\ loc' = [loc EXCEPT ![c] = [Frame EXCEPT !.op = "Put", !.m = m,
                                               !.ret = "PutDone"]]
    /\ UNCHANGED <<items, info, typeIdIndex, typeNameIndex, db, stamped, epochStart,
                   last, mu>>

\* Put up to its typeBucketKey call: GetTypeName answers the two reserved
\* type ids before it takes the read lock
PutEnter(c) ==
    /\ pc[c] = "Put"
    /\ IF loc[c].m = NilStorable THEN PutReturn(c, "ErrNilStoreable")
       ELSE IF GetId(loc[c].m) = NilId THEN PutReturn(c, "ErrStorableHasNilId")
       ELSE /\ pc' = [pc EXCEPT ![c] =
                         IF GetId(loc[c].m)[1] \in {REGISTRY_INFO_TYPE_ID,
                                                    REGISTRY_ITEM_TYPE_ID}
                         THEN "PutUpdate" ELSE "GetTypeName"]
            /\ UNCHANGED loc
    /\ UNCHANGED <<items, info, typeIdIndex, typeNameIndex, db, stamped, epochStart,
                   last, mu>>

\* bs.db.Update(fn): the write transaction begins when no other is open, or
\* the engine refuses it
PutUpdate(c, io) ==
    /\ pc[c] = "PutUpdate"
    /\ TxFree
    /\ IF io
       THEN pc' = [pc EXCEPT ![c] = "Indexes"] /\ UNCHANGED loc
       ELSE PutReturn(c, "ErrEngine")
    /\ UNCHANGED <<items, info, typeIdIndex, typeNameIndex, db, stamped, epochStart,
                   last, mu>>

\* the transaction of Put ran to its end with out
PutCommits(c, out) ==
    /\ db' = out.db
    /\ PutReturn(c, out.err)

\* the store reads the registry under r.mu.RLock(): GetTypeName for
\* typeBucketKey before the transaction, Indexes in updateIndexes inside it
\* (the rest of the transaction follows)
RegistryRead(c) ==
    /\ pc[c] \in {"GetTypeName", "Indexes"}
    /\ mu = <<>>
    /\ IF pc[c] = "Indexes" THEN PutCommits(c, Put(Reg, db, loc[c].m, TRUE))
       ELSE /\ IF typeBucketKey(Reg, GetId(loc[c].m)[1]) = <<>>
               THEN PutReturn(c, "ErrTypeNotFound")
               ELSE IF MarshalFails(loc[c].m)
               THEN PutReturn(c, "ErrMarshalFailed")
               ELSE pc' = [pc EXCEPT ![c] = "PutUpdate"] /\ UNCHANGED loc
            /\ UNCHANGED db
    /\ UNCHANGED <<items, info, typeIdIndex, typeNameIndex, stamped, epochStart,
                   last, mu>>

\* Put returned to the application
PutDone(c) ==
    /\ pc[c] = "PutDone"
    /\ pc' = [pc EXCEPT ![c] = "idle"]
    /\ loc' = [loc EXCEPT ![c] = <<>>]
    /\ last' = [op |-> "Put", err |-> loc[c].err]
    /\ UNCHANGED <<items, info, typeIdIndex, typeNameIndex, db, stamped, epochStart,
                   mu>>

\* the steps that go on with a call under way when the engine does not fail
Continue(c) ==
    \/ RegistryLock(c)
    \/ LoadBuckets(c, TRUE, TRUE)
    \/ LoadGet(c, TRUE)
    \/ LoadGetAll(c, TRUE)
    \/ LoadNewTypes(c)
    \/ AllocateNewTypePut(c)
    \/ LoadBuild(c)
    \/ AllocateIdBody(c)
    \/ AllocateIdReturn(c)
    \/ PutEnter(c)
    \/ PutUpdate(c, TRUE)
    \/ RegistryRead(c)
    \/ PutDone(c)

\* the calls of caller c and their steps
Step(c) ==
    \/ \E n \in TypeNames : pc[c] = "idle" /\ mu = <<>> /\ DoRegister(n)
    \/ LoadCall(c)
    \/ \E n \in TypeNames : AllocateIdEnter(c, n)
    \/ \E m \in PutRecords : PutCall(c, m)
    \/ RegistryLock(c)
    \/ \E io1, io2 \in BOOLEAN : LoadBuckets(c, io1, io2)
    \/ \E io \in BOOLEAN : LoadGet(c, io)
    \/ \E io \in BOOLEAN : LoadGetAll(c, io)
    \/ LoadNewTypes(c)
    \/ AllocateNewTypePut(c)
    \/ LoadBuild(c)
    \/ AllocateIdBody(c)
    \/ AllocateIdReturn(c)
    \/ PutEnter(c)
    \/ \E io \in BOOLEAN : PutUpdate(c, io)
    \/ RegistryRead(c)
    \/ PutDone(c)

\* One caller and no other activity: every step of a call under way is
\* taken when it can be.
NextSolo == Step(1)

SpecSolo == Init /\ [][NextSolo]_vars /\ WF_vars(Continue(1))

\* Goroutines of one process calling concurrently.  A goroutine that waits
\* for r.mu or for the write transaction gets it when it is free again and
\* again (the mutexes hand over to their waiters), so each goes on when it
\* can infinitely often.
NextLock == \E c \in Callers : Step(c)

SpecLock == Init /\ [][NextLock]_vars /\ \A c \in Callers : SF_vars(Continue(c))

-----------------------------------------------------------------------------
(* Concurrent Deletes: goroutines delete and put records of a type with a  *)
(* Unique index; each Put is one transaction, each Delete a Get and then   *)
(* an Update.                                                              *)

\* Delete(id) up to its Update: the nil check and bs.Get(id); the call
\* returns when the Get fails
DeleteFetched(c, id, got) ==
    /\ IF got.err = "ok"
       THEN /\ pc' = [pc EXCEPT ![c] = "Update"]
            /\ loc' = [loc EXCEPT ![c] = [id |-> id, got |-> got]]
            /\ UNCHANGED last
       ELSE /\ last' = [op |-> "Delete", id |-> id, found |-> FALSE,
                        err |-> DeleteGot(Reg, db, id, got, TRUE).err]
            /\ UNCHANGED <<pc, loc>>
    /\ UNCHANGED <<items, info, typeIdIndex, typeNameIndex, db, stamped, epochStart, mu>>

DeleteFetch(c, id) ==
    /\ pc[c] = "idle"
    /\ DeleteFetched(c, id, Get(Reg, db, id, TRUE))

\* Delete's bs.db.Update returned out, and the call returns
DeleteRemoved(c, out) ==
    /\ db' = out.db
    /\ pc' = [pc EXCEPT ![c] = "idle"]
    /\ loc' = [loc EXCEPT ![c] = <<>>]
    /\ last' = [op |-> "Delete", id |-> loc[c].id, found |-> TRUE, err |-> out.err]
    /\ UNCHANGED <<items, info, typeIdIndex, typeNameIndex, stamped, epochStart, mu>>

DeleteRemove(c) ==
    /\ pc[c] = "Update"
    /\ DeleteRemoved(c, DeleteGot(Reg, db, loc[c].id, loc[c].got, TRUE))

\* the type has its Unique index on Sku declared before Load and before any
\* record is stored
NextUnique ==
    \/ items = <<>> /\ DoRegister("A")
    \/ ~Loaded /\ items # <<>> /\ items[1].Indexes = <<>>
          /\ DoIndex("A", "Sku", UniqueIndex)
    \/ ~Loaded /\ items # <<>> /\ items[1].Indexes # <<>> /\ DoLoad(NoFailure)
    \/ AllIdle /\ DoAllocateId("A", TRUE)
    \/ \E m \in StampedRecords : DoPut(m, TRUE)
    \/ \E c \in Callers, id \in StampedIds : DeleteFetch(c, id)
    \/ \E c \in Callers : DeleteRemove(c)

SpecUnique == Init /\ [][NextUnique]_vars

\* Index declarations over the life of one store: each process registers
\* type "A", declares indexes, loads the registry, allocates identifiers,
\* stores records and ends; the next process may declare other indexes.
NextIdx ==
    \/ items = <<>> /\ DoRegister("A")
    \/ ~Loaded /\ items # <<>>
          /\ \E p \in PropertyNames, t \in IndexTypes : DoIndex("A", p, t)
    \/ ~Loaded /\ items # <<>> /\ DoLoad(NoFailure)
    \/ DoAllocateId("A", TRUE)
    \/ \E m \in StampedRecords : DoPut(m, TRUE)
    \/ last.op # "Restart" /\ DoRestart

SpecIdx == Init /\ [][NextIdx]_vars

\* Bucket names: the names typeBucketKey and mkIndexBucketName build for two
\* registered types and a property of each.  Register and Index take any
\* string as a name.
BucketTypeNames == {"A", "A.B", "B", REGISTRY_INFO_TYPE_NAME, REGISTRY_ITEM_TYPE_NAME}

BucketPropertyNames == {"B", "C", "B.C", "Sku"}

DoBucketNames(n1, p1, n2, p2) ==
    /\ last' = [op |-> "BucketNames", err |-> "ok", n1 |-> n1, p1 |-> p1,
                n2 |-> n2, p2 |-> p2,
                primary1 |-> typeBucketName(<<n1>>),
                index1 |-> indexBucketName(<<n1>>, p1),
                primary2 |-> typeBucketName(<<n2>>),
                index2 |-> indexBucketName(<<n2>>, p2)]
    /\ UNCHANGED <<items, info, typeIdIndex, typeNameIndex, db, stamped, epochStart,
                   mu, pc, loc>>

NextNames ==
    last.op = "New" /\ \E n1, n2 \in BucketTypeNames, p1, p2 \in BucketPropertyNames :
        DoBucketNames(n1, p1, n2, p2)

SpecNames == Init /\ [][NextNames]_vars

(* Properties of the store *)

\* the identifier text an index entry or a primary key holds
PrimaryBucket(typeName) == "Type." \o typeName
IndexBucket(typeName, propertyName) == "Index." \o typeName \o "." \o propertyName

\* the records stored under a type name: key -> unmarshalled record
StoredKeys(typeName) ==
    IF PrimaryBucket(typeName) \in DOMAIN db THEN DOMAIN db[PrimaryBucket(typeName)] ELSE {}

\* m is a record Put accepts up to its transaction: not nil, stamped, of a
\* type the registry knows, and serializable
Puttable(m) ==
    /\ m.kind = "user"
    /\ m.Id # NilId
    /\ m.Id[1] \in DOMAIN typeIdIndex
    /\ ~m.marshalErr

\* some Unique index of m's type already maps the encoded value of m's
\* property, in the index bucket, to another identifier
UniqueConflictIn(d, m) ==
    \E i \in DOMAIN Indexes(Reg, m.Id[1]) :
        LET def == Indexes(Reg, m.Id[1])[i]
            b == IndexBucket(GetTypeName(Reg, m.Id[1])[1], def.PropertyName)
        IN  /\ def.Type = UniqueIndex
            /\ def.PropertyName \in PropertyNames
            /\ b \in DOMAIN d
            /\ m[def.PropertyName] \in DOMAIN d[b]
            /\ d[b][m[def.PropertyName]] # IdString(m.Id)

\* C1: a Put of a record whose Unique-indexed value is already mapped to
\* another identifier fails with the uniqueness violation, and the store holds
\* after the call exactly what it held before: neither the record's primary
\* entry nor an index entry written earlier in the call is visible.
C1_UniqueViolationLeavesStoreUnchanged ==
    \A m \in Storables :
        Puttable(m) /\ UniqueConflictIn(db, m) =>
            /\ Put(Reg, db, m, TRUE).err = "ErrUniqueIndexConstraintViolation"
            /\ Put(Reg, db, m, TRUE).db = db

\* a Put has failed on a uniqueness violation, and there is a conflicting
\* record whose transaction writes an index entry before it hits the conflict
C1_Witness ==
    /\ last.op = "Put"
    /\ last.err = "ErrUniqueIndexConstraintViolation"
    /\ \E m \in Storables :
          /\ Puttable(m)
          /\ UniqueConflictIn(db, m)
          /\ \E b \in DOMAIN PutTx(Reg, db, m, PrimaryBucket(m.TypeName)).tx :
                /\ b # PrimaryBucket(m.TypeName)
                /\ b \in DOMAIN db
                /\ PutTx(Reg, db, m, PrimaryBucket(m.TypeName)).tx[b] # db[b]

\* the entry key -> idText of the index bucket of (typeName, propertyName) is
\* current: the record idText is stored, and its present value of the property
\* encodes to the key under an index the type declares on that property
EntryIsCurrent(item, propertyName, key, idText) ==
    /\ idText \in StoredKeys(item.TypeName)
    /\ \E i \in DOMAIN item.Indexes :
          /\ item.Indexes[i].PropertyName = propertyName
          /\ key = buildIndexKey(item.Indexes[i].Type,
                                 db[PrimaryBucket(item.TypeName)][idText][
                                     IF propertyName = "Sku" THEN "sku" ELSE "tag"],
                                 db[PrimaryBucket(item.TypeName)][idText].id)

\* C2: after any sequence of Put, PutAll and Delete, every entry of every
\* index bucket maps to the identifier of a record that is stored and whose
\* present property value encodes to the entry's key: no stale entries.
C2_NoStaleIndexEntries ==
    \A k \in DOMAIN items : \A p \in PropertyNames :
        IndexBucket(items[k].TypeName, p) \in DOMAIN db =>
            \A key \in DOMAIN db[IndexBucket(items[k].TypeName, p)] :
                EntryIsCurrent(items[k], p, key,
                               db[IndexBucket(items[k].TypeName, p)][key])

\* the identifier texts that some index bucket of the type maps to
IndexedIdTexts(typeName) ==
    UNION { IF IndexBucket(typeName, p) \in DOMAIN db
            THEN { db[IndexBucket(typeName, p)][key] :
                       key \in DOMAIN db[IndexBucket(typeName, p)] }
            ELSE {} : p \in PropertyNames }

\* C3: after Delete(id) has succeeded on a stored record, Get(id) fails with
\* the key-not-found error and no index bucket of the record's type holds an
\* entry whose value is id, whatever puts of the record preceded the delete.
C3_DeleteLeavesNoEntry ==
    (last.op = "Delete" /\ last.err = "ok" /\ last.found) =>
        /\ Get(Reg, db, last.id, TRUE).err = "ErrKeyNotFound"
        /\ \A n \in TypeNames :
              GetTypeName(Reg, last.id[1]) = <<n>> =>
                  IdString(last.id) \notin IndexedIdTexts(n)

\* the processing of record i of the batch fails: the record is nil, has no
\* identifier, is of an unknown type or does not serialize, or a Unique index
\* already maps its value to another identifier, in the store or through an
\* earlier record of the batch
RecordFailsInBatch(ms, i) ==
    \/ ~Puttable(ms[i])
    \/ UniqueConflictIn(db, ms[i])
    \/ \E j \in 1..(i - 1) :
          /\ Puttable(ms[j])
          /\ ms[j].Id # ms[i].Id
          /\ \E k \in DOMAIN Indexes(Reg, ms[i].Id[1]) :
                /\ Indexes(Reg, ms[i].Id[1])[k].Type = UniqueIndex
                /\ ms[j][Indexes(Reg, ms[i].Id[1])[k].PropertyName]
                     = ms[i][Indexes(Reg, ms[i].Id[1])[k].PropertyName]

\* record i of the batch is visible in d: its primary entry (with the content
\* of the last record of the batch carrying its identifier) and, for every
\* index of its type, the entry its value encodes to
RecordVisible(d, ms, i) ==
    /\ PrimaryBucket(ms[i].TypeName) \in DOMAIN d
    /\ IdString(ms[i].Id) \in DOMAIN d[PrimaryBucket(ms[i].TypeName)]
    /\ (\A j \in (i + 1)..Len(ms) : ms[j].Id # ms[i].Id) =>
           d[PrimaryBucket(ms[i].TypeName)][IdString(ms[i].Id)] = Marshal(ms[i])
    /\ \A k \in DOMAIN Indexes(Reg, ms[i].Id[1]) :
          LET def == Indexes(Reg, ms[i].Id[1])[k]
              b == IndexBucket(ms[i].TypeName, def.PropertyName)
              key == buildIndexKey(def.Type, ms[i][def.PropertyName], ms[i].Id)
          IN  /\ b \in DOMAIN d
              /\ key \in DOMAIN d[b]
              /\ d[b][key] = IdString(ms[i].Id)

\* out, the result of PutAll(ms) in the present state, is all or nothing
AllOrNothing(ms, out) ==
    /\ (\E i \in DOMAIN ms : RecordFailsInBatch(ms, i)) => out.err # "ok"
    /\ out.err # "ok" => out.db = db
    /\ out.err = "ok" => \A i \in DOMAIN ms : RecordVisible(out.db, ms, i)

\* C7: PutAll is all-or-nothing.  When the processing of any record of the
\* batch fails the call returns an error and the store holds what it held
\* before; when the call succeeds the primary entry and the index entries of
\* every record of the batch are visible.
C7_PutAllIsAllOrNothing ==
    \A ms \in Batches : AllOrNothing(ms, PutAll(Reg, db, ms, TRUE))

\* a PutAll has failed on its second record after the first one was written
\* in the transaction: a batch of two records with distinct identifiers and
\* one value under a Unique index, on a store that holds no record yet
C7_Witness ==
    /\ last.op = "PutAll"
    /\ last.err = "ErrIndexUpdateFailed"
    /\ StoredKeys("A") = {}
    /\ \E ms \in Batches :
          /\ Len(ms) = 2
          /\ ~RecordFailsInBatch(ms, 1)
          /\ RecordFailsInBatch(ms, 2)
          /\ PutAllFrom(Reg, db, ms, 1).tx # db

-----------------------------------------------------------------------------
(* Properties of the registry *)

\* the positions of stamped that belong to the present process since its
\* last Load
SinceLoad == (epochStart + 1)..Len(stamped)

\* C4: the successful AllocateId calls made for one type since a Load stamp
\* identifiers that all carry the type's type id and whose object ids
\* strictly increase in call order (so they are pairwise distinct); each call
\* uses the counter's value and leaves the counter above it.
C4_AllocatedIdsIncrease ==
    \A i \in SinceLoad :
        stamped[i].ok =>
            /\ GetTypeId(Reg, stamped[i].name) = <<stamped[i].id[1]>>
            /\ items[typeNameIndex[stamped[i].name]].NextObjectId > stamped[i].id[2]
            /\ \A j \in SinceLoad :
                  (i < j /\ stamped[j].ok /\ stamped[j].name = stamped[i].name) =>
                      /\ stamped[j].id[1] = stamped[i].id[1]
                      /\ stamped[j].id[2] > stamped[i].id[2]

\* two successful AllocateId calls for one type since a successful Load
C4_Witness ==
    /\ last.op = "AllocateId"
    /\ last.err = "ok"
    /\ \E i, j \in SinceLoad :
          /\ i < j
          /\ stamped[i].ok /\ stamped[j].ok
          /\ stamped[i].name = stamped[j].name

\* C6: an identifier AllocateId stamped on a record is stamped on no other
\* record afterwards, over the whole life of the store: across later Loads
\* and processes, and also when the call that stamped it failed to persist
\* the counter.
C6_NoIdentifierStampedTwice ==
    \A i, j \in DOMAIN stamped : i < j => stamped[i].id # stamped[j].id

\* C9: after Register was called twice for one name and Load succeeded, one
\* type id is associated with the name: the in-memory items of the name carry
\* the same type id, and so do the persisted items of the name.
C9_OneTypeIdPerRegisteredName ==
    (last.op = "Load" /\ last.err = "ok") =>
        /\ \A i, j \in DOMAIN items :
              items[i].TypeName = items[j].TypeName => items[i].TypeId = items[j].TypeId
        /\ "Type.RegistryItem" \in DOMAIN db =>
              \A k1, k2 \in DOMAIN db["Type.RegistryItem"] :
                  db["Type.RegistryItem"][k1].typeName = db["Type.RegistryItem"][k2].typeName
                      => db["Type.RegistryItem"][k1].typeId = db["Type.RegistryItem"][k2].typeId

\* the persisted registry items
PersistedItems ==
    IF "Type.RegistryItem" \in DOMAIN db
    THEN {db["Type.RegistryItem"][k] : k \in DOMAIN db["Type.RegistryItem"]}
    ELSE {}

\* C10: after a successful Load each registered name maps to one type id and
\* distinct names map to distinct type ids, in memory and among the persisted
\* types; the in-memory type id of a name is the one persisted for it, so a
\* persisted name keeps its type id and a new name receives a type id that no
\* persisted type holds.
C10_NamesAndTypeIdsCorrespond ==
    (last.op = "Load" /\ last.err = "ok") =>
        /\ \A i, j \in DOMAIN items :
              (items[i].TypeName = items[j].TypeName) <=> (items[i].TypeId = items[j].TypeId)
        /\ \A p, q \in PersistedItems :
              (p.typeName = q.typeName) <=> (p.typeId = q.typeId)
        /\ \A i \in DOMAIN items : \A p \in PersistedItems :
              (p.typeName = items[i].TypeName) <=> (p.typeId = items[i].TypeId)

\* the callers that hold an identifier they built from the counter
Holding == {c \in Callers : pc[c] \in {"Increment", "Persist"}}

\* C5: in every interleaving of concurrent AllocateId callers no two callers
\* receive the same object id for one type: the identifiers built from the
\* counter and those already stamped are pairwise distinct, and at most one
\* caller at a time is between reading the counter and returning.
C5_ConcurrentCallersGetDistinctIds ==
    /\ \A i, j \in DOMAIN stamped :
          (i < j /\ stamped[i].name = stamped[j].name) =>
              stamped[i].id[2] # stamped[j].id[2]
    /\ \A c \in Holding : \A i \in DOMAIN stamped :
          stamped[i].name = loc[c].typeName => stamped[i].id[2] # loc[c].id[2]
    /\ \A c1, c2 \in Holding : c1 # c2 => loc[c1].id # loc[c2].id
    /\ \A c1, c2 \in Callers :
          (c1 # c2 /\ pc[c1] \in {"Lookup", "NewId", "Increment", "Persist"}) =>
              pc[c2] \in {"idle", "Lock"}

\* two callers were inside AllocateId for one type at the same time and both
\* have received their identifiers
C5_Witness ==
    /\ Len(stamped) >= 2
    /\ stamped[1].overlap
    /\ stamped[1].ok /\ stamped[2].ok
    /\ stamped[1].name = stamped[2].name

\* the store's content after Delete(id) and Put(m) ran one after the other
\* on content d, in either order
DeleteThenPut(d, id, m) == Put(Reg, Delete(Reg, d, id, TRUE, TRUE).db, m, TRUE).db
PutThenDelete(d, id, m) == Delete(Reg, Put(Reg, d, m, TRUE).db, id, TRUE, TRUE).db

\* C8: Delete fetches the record and removes its primary entry and its index
\* entries in one transaction, so a Delete that ran concurrently with a Put
\* leaves the store as one of the two serial orders of the two calls would.
C8_DeleteSerializesWithPut ==
    \A c \in Callers :
        (pc[c] = "idle" /\ loc[c] # <<>> /\ loc[c].during # <<>>) =>
            loc[c].result \in {DeleteThenPut(loc[c].base, loc[c].id, loc[c].during[1]),
                               PutThenDelete(loc[c].base, loc[c].id, loc[c].during[1])}

\* C11: over any sequence of Register and Load calls no registered type
\* carries type id 1 or 2: every type id Load has allocated, in memory or
\* persisted, is at least 1001, the seed of the Registry Info's counter, and
\* the counter itself never falls below the seed.
C11_UserTypeIdsAtLeastSeed ==
    /\ \A i \in DOMAIN items :
          items[i].TypeId = 0 \/ items[i].TypeId >= FirstTypeId
    /\ \A p \in PersistedItems : p.typeId >= FirstTypeId
    /\ \A t \in DOMAIN typeIdIndex : t >= FirstTypeId
    /\ info # <<>> => info[1].NextTypeId >= FirstTypeId

\* a Load has allocated type ids for two registered types
C11_Witness ==
    /\ last.op = "Load"
    /\ last.err = "ok"
    /\ Len(items) = 2
    /\ items[1].TypeId >= FirstTypeId
    /\ items[2].TypeId > items[1].TypeId

-----------------------------------------------------------------------------
(* Properties of single-record reads and deletes *)

\* a record is stored under the identifier, in the primary bucket of some
\* application type
Stored(id) == \E n \in TypeNames : IdString(id) \in StoredKeys(n)

\* the registry knows the identifier's type id
TypeKnown(id) == id[1] \in DOMAIN typeIdIndex

\* the identifiers with no stored record
AbsentIds == {id \in LookupIds \ {NilId} : ~Stored(id)}

\* C13 as stated: Delete of every non-nil identifier with no stored record
\* returns success and leaves the store unchanged.
C13_DeleteOfAbsentSucceeds ==
    \A id \in AbsentIds :
        /\ Delete(Reg, db, id, TRUE, TRUE).err = "ok"
        /\ Delete(Reg, db, id, TRUE, TRUE).db = db

\* out is the result of Delete(id) in the present state, again the result of
\* a second Delete(id) on the store the first one left
DeleteIsIdempotent(id, out, again) ==
    /\ ~Stored(id) => out.db = db
    /\ (~Stored(id) /\ TypeKnown(id)) => out.err = "ok"
    /\ (~Stored(id) /\ ~TypeKnown(id)) => out.err = "ErrTypeNotFound"
    /\ out.err = "ok" => (again.err = "ok" /\ again.db = out.db)

\* C13 amended: Delete of a non-nil identifier with no stored record leaves
\* the store unchanged; it returns success when the registry knows the
\* identifier's type id (key missing or primary bucket missing) and the
\* type-not-found error when it does not.  A second Delete of an identifier
\* whose Delete succeeded returns success and changes nothing.
C13_DeleteOfAbsentOfKnownTypeSucceeds ==
    \A id \in LookupIds \ {NilId} :
        DeleteIsIdempotent(id, Delete(Reg, db, id, TRUE, TRUE),
            Delete(Reg, Delete(Reg, db, id, TRUE, TRUE).db, id, TRUE, TRUE))

\* a Delete has succeeded on an identifier that had no record although other
\* records of its type are stored
C13_Witness ==
    /\ last.op = "Delete"
    /\ last.err = "ok"
    /\ ~last.found
    /\ last.id \in AbsentIds
    /\ PrimaryBucket(GetTypeName(Reg, last.id[1])[1]) \in DOMAIN db
    /\ db[PrimaryBucket(GetTypeName(Reg, last.id[1])[1])] # EmptyBucket

\* C15 as stated: Exists of every non-nil identifier returns no error, and
\* returns true exactly when a primary entry for the identifier is stored.
C15_ExistsNeverFailsOnAbsence ==
    \A id \in LookupIds \ {NilId} :
        /\ Exists(Reg, db, id, TRUE).err = "ok"
        /\ Exists(Reg, db, id, TRUE).exists <=> Stored(id)

\* out is the result of Exists(id) in the present state
ExistsAnswers(id, out) ==
    IF TypeKnown(id)
    THEN out.err = "ok" /\ (out.exists <=> Stored(id))
    ELSE out.err = "ErrTypeNotFound" /\ ~out.exists /\ ~Stored(id)

\* C15 amended: for a non-nil identifier whose type id the registry knows,
\* Exists returns no error and returns true exactly when a primary entry for
\* the identifier is stored (false when the key or the bucket is missing);
\* for an identifier of an unknown type id it returns false with the
\* type-not-found error.
C15_ExistsOfKnownTypeNeverFails ==
    \A id \in LookupIds \ {NilId} : ExistsAnswers(id, Exists(Reg, db, id, TRUE))

\* Exists has answered false without error for an identifier whose type has
\* no primary bucket yet
C15_Witness ==
    /\ last.op = "Exists"
    /\ last.err = "ok"
    /\ ~last.exists
    /\ last.id \in StampedIds
    /\ PrimaryBucket(GetTypeName(Reg, last.id[1])[1]) \notin DOMAIN db

\* C16 as stated: Get of every non-nil identifier with no stored record fails
\* with bucket-not-found when the type's primary bucket is absent and with
\* key-not-found when it exists, and returns no record.
C16_GetOfAbsentFailsNotFound ==
    \A id \in AbsentIds :
        /\ Get(Reg, db, id, TRUE).err \in {"ErrBucketNotFound", "ErrKeyNotFound"}
        /\ Get(Reg, db, id, TRUE).m = NilStorable

\* out is the result of Get(id), for an identifier with no stored record
GetOfAbsent(id, out) ==
    /\ out.m = NilStorable
    /\ out.err =
         IF ~TypeKnown(id) THEN "ErrTypeNotFound"
         ELSE IF PrimaryBucket(GetTypeName(Reg, id[1])[1]) \in DOMAIN db
         THEN "ErrKeyNotFound"
         ELSE "ErrBucketNotFound"

\* C16 amended: Get of a non-nil identifier with no stored record returns no
\* record and fails with type-not-found when the registry does not know the
\* identifier's type id, with bucket-not-found when the type's primary bucket
\* is absent, and with key-not-found when the bucket exists.
C16_GetOfAbsentFailsByCause ==
    \A id \in AbsentIds : GetOfAbsent(id, Get(Reg, db, id, TRUE))

\* a Get has failed with bucket-not-found on an identifier of a known type
C16_Witness ==
    /\ last.op = "Get"
    /\ last.err = "ErrBucketNotFound"
    /\ last.id \in AbsentIds
    /\ TypeKnown(last.id)

\* the records Get returns for the stored identifiers other than id are the
\* same with registry r2 on store d2 as they are in the present state
OthersUnchanged(id, r2, d2) ==
    \A id2 \in StampedIds \ {id} :
        Stored(id2) => /\ Get(Reg, db, id2, TRUE).err = "ok"
                       /\ Get(r2, d2, id2, TRUE) = Get(Reg, db, id2, TRUE)

\* out is the result of Put(m) in the present state: after a successful Put
\* Get returns a record that serializes to the bytes of m
PutThenGet(m, out) ==
    IF out.err = "ok"
    THEN /\ Get(Reg, out.db, GetId(m), TRUE).err = "ok"
         /\ Marshal(Get(Reg, out.db, GetId(m), TRUE).m) = Marshal(m)
         /\ OthersUnchanged(GetId(m), Reg, out.db)
    ELSE OthersUnchanged(NilId, Reg, out.db)

\* C14: after a successful Put(r), Get(r.Id) succeeds with a record whose
\* serialized bytes are those of r, and this lasts until a Delete or another
\* Put of that identifier: a Put or Delete of another identifier, a failed
\* Put, and an AllocateId leave the result of Get unchanged.
C14_PutThenGetRoundTrips ==
    /\ \A m \in Storables : PutThenGet(m, Put(Reg, db, m, TRUE))
    /\ \A id \in LookupIds : OthersUnchanged(id, Reg, Delete(Reg, db, id, TRUE, TRUE).db)
    /\ \A n \in TypeNames :
          OthersUnchanged(NilId, AllocateId(Reg, db, n, TRUE).r,
                          AllocateId(Reg, db, n, TRUE).db)

\* a Get has returned a record while both allocated identifiers hold records
\* that were put one after the other
C14_Witness ==
    /\ last.op = "Get"
    /\ last.err = "ok"
    /\ Cardinality(StampedIds) = 2
    /\ \A id \in StampedIds : Stored(id)

\* the identifiers of type id t under which Get finds a record: by C14 the
\* identifiers that were put and not deleted since
Live(t) == {id \in StampedIds : id[1] = t /\ Get(Reg, db, id, TRUE).err = "ok"}

\* out is the result of GetAll(t) in the present state
GetAllIsExact(t, out) ==
    /\ out.err = "ok"
    /\ {out.ms[i].Id : i \in DOMAIN out.ms} = Live(t)
    /\ \A i, j \in DOMAIN out.ms : out.ms[i].Id = out.ms[j].Id => i = j
    /\ \A i \in DOMAIN out.ms : out.ms[i] = Get(Reg, db, out.ms[i].Id, TRUE).m

\* C17: GetAll of a registered type id returns exactly the records that were
\* put with an identifier of that type id and not deleted since, one per
\* stored identifier and none of another type id (an empty collection and no
\* error when the type has no bucket); GetAllByTypeName of a registered name
\* returns what GetAll of the name's type id returns.
C17_GetAllReturnsTheStoredRecords ==
    /\ \A t \in DOMAIN typeIdIndex : GetAllIsExact(t, GetAll(Reg, db, t, TRUE))
    /\ \A n \in DOMAIN typeNameIndex :
          GetAllByTypeName(Reg, db, n, TRUE) = GetAll(Reg, db, GetTypeId(Reg, n)[1], TRUE)

\* C18: Put of a nil record fails with the nil-record error and Put of a
\* record whose identifier is nil fails with the record-has-no-identifier
\* error; in both cases the store is left as it was: no bucket is created and
\* no entry is written.
C18_PutRejectsNilRecordAndNilId ==
    \A m \in Storables :
        /\ m = NilStorable =>
              /\ Put(Reg, db, m, TRUE).err = "ErrNilStoreable"
              /\ Put(Reg, db, m, TRUE).db = db
        /\ (m # NilStorable /\ m.Id = NilId) =>
              /\ Put(Reg, db, m, TRUE).err = "ErrStorableHasNilId"
              /\ Put(Reg, db, m, TRUE).db = db

\* a Put of a record without identifier has failed on a loaded registry whose
\* type has no primary bucket yet
C18_Witness ==
    /\ last.op = "Put"
    /\ last.err = "ErrStorableHasNilId"
    /\ "A" \in DOMAIN typeNameIndex
    /\ PrimaryBucket("A") \notin DOMAIN db

\* no item of the name was registered in this process
Unregistered(n) == \A i \in DOMAIN items : items[i].TypeName # n

\* no Load has built the lookup maps in this process
NeverLoaded == typeNameIndex = EmptyIndex /\ typeIdIndex = EmptyIndex

\* C19: AllocateId for a record whose type name is not registered, or called
\* before Load, fails with type-not-found, does not stamp the record, changes
\* no counter of the registry and writes nothing to the store, whether or not
\* the store is able to write.
C19_AllocateIdOfUnknownTypeChangesNothing ==
    \A n \in TypeNames, io \in BOOLEAN :
        (Unregistered(n) \/ NeverLoaded) =>
            AllocateId(Reg, db, n, io) =
                [err |-> "ErrTypeNotFound", r |-> Reg, db |-> db, id |-> NilId]

\* an AllocateId has failed with type-not-found for an unregistered name on
\* a registry that was loaded with another type
C19_Witness ==
    /\ last.op = "AllocateId"
    /\ last.err = "ErrTypeNotFound"
    /\ Loaded
    /\ \E n \in TypeNames : Unregistered(n)

\* C20: PutAll applies to every record the logic of Put: for every single
\* record and every store state PutAll of the one-record batch leaves the
\* store that Put leaves and, when it fails, fails with the same error (a
\* conflict on a Unique index is the uniqueness violation).
C20_PutAllOfOneRecordIsPut ==
    \A m \in Storables :
        /\ PutAll(Reg, db, <<m>>, TRUE).db = Put(Reg, db, m, TRUE).db
        /\ PutAll(Reg, db, <<m>>, TRUE).err = Put(Reg, db, m, TRUE).err

(* Properties of concurrent registry lookups *)

\* the read lock excludes the writer: no lookup reads the maps while a Load
\* is between its Lock and its Unlock
LookupsExcludeLoad == \A c \in Readers : mu = <<>>

\* C12: a lookup that runs concurrently with Register, Load and the other
\* writers never sees a partially updated registry: whenever GetTypeId(name)
\* returned t to a caller, the caller's GetTypeName(t) returns name.
C12_LookupsAgree ==
    \A c \in Callers :
        (pc[c] = "idle" /\ loc[c] # <<>> /\ "name" \in DOMAIN loc[c]) =>
            loc[c].name = <<loc[c].typeName>>

-----------------------------------------------------------------------------
(* Properties of Load's error handling *)

\* the Registry Info held in memory is the one in the store
InfoPersisted ==
    /\ info # <<>>
    /\ Get(Reg, db, info[1].Id, TRUE).err = "ok"
    /\ Get(Reg, db, info[1].Id, TRUE).m = info[1]

\* every in-memory item that has a type id is in the store
ItemsPersisted ==
    \A i \in DOMAIN items :
        items[i].TypeId # 0 => Exists(Reg, db, items[i].Id, TRUE).exists

\* C21: Load never returns success while the Registry Info or a newly
\* allocated Registry Item it holds in memory is not persisted: a failed
\* write of the engine during Load makes Load return an error or abort.
C21_LoadSucceedsOnlyWhenPersisted ==
    (last.op = "Load" /\ last.err = "ok") => InfoPersisted /\ ItemsPersisted

-----------------------------------------------------------------------------
(* Properties of the index codec *)

\* the entries of bucket b in store d, none when the bucket does not exist
Entries(d, b) == IF b \in DOMAIN d THEN d[b] ELSE EmptyBucket

SameEntries(d1, d2) ==
    \A b \in DOMAIN d1 \cup DOMAIN d2 : Entries(d1, b) = Entries(d2, b)

\* the registry without index definition i of the type of identifier id
WithoutIndex(r, id, i) ==
    [r EXCEPT !.items[r.typeIdIndex[id[1]]].Indexes =
                  SubSeq(@, 1, i - 1) \o SubSeq(@, i + 1, Len(@))]

\* Put with the unextractable definition i does what Put does without it
SkipsOnly(m, i, with, without) ==
    /\ with.err = without.err
    /\ SameEntries(with.db, without.db)

\* C22: when an indexed property of a record cannot be extracted or has a
\* shape that does not match the data type of the index, Put skips that one
\* index only: it succeeds and writes the primary entry and the entries of
\* every other index exactly as it does without the skipped definition, and
\* writes no entry to the skipped index.
C22_PutSkipsUnextractableIndexOnly ==
    \A m \in StampedRecords :
        \A i \in DOMAIN Indexes(Reg, m.Id[1]) :
            propertyValueBytes(m, Indexes(Reg, m.Id[1])[i]).res # "ok" =>
                SkipsOnly(m, i, Put(Reg, db, m, TRUE),
                          Put(WithoutIndex(Reg, m.Id, i), db, m, TRUE))

\* the number a float64 bit pattern stands for, times a power of two that
\* makes it an integer; infinity takes the value its exponent gives it
IsNaN(bits) ==
    /\ (bits % SignBit) \div (2 ^ ManBits) = 2 ^ ExpBits - 1
    /\ (bits % SignBit) % (2 ^ ManBits) # 0

Magnitude(e, m) == IF e = 0 THEN m ELSE (2 ^ ManBits + m) * 2 ^ (e - 1)

FloatValue(bits) ==
    IF bits < SignBit
    THEN Magnitude(bits \div (2 ^ ManBits), bits % (2 ^ ManBits))
    ELSE 0 - Magnitude((bits - SignBit) \div (2 ^ ManBits), (bits - SignBit) % (2 ^ ManBits))

\* the unsigned number of a big-endian byte string
RECURSIVE Uint(_)
Uint(bytes) ==
    IF bytes = <<>> THEN 0
    ELSE Uint(SubSeq(bytes, 1, Len(bytes) - 1)) * (2 ^ ByteBits) + bytes[Len(bytes)]

\* C23: the Int64 encoding preserves order: for signed integers a < b of the
\* width, encode(a) is byte-wise smaller than encode(b), across the
\* negative/positive boundary and at the minimum and maximum values.
C23_Int64EncodingPreservesOrder ==
    (last.op = "Encode" /\ last.dataType = Int64Index /\ last.a < last.b) =>
        /\ Len(last.ea) = WordBytes
        /\ Len(last.eb) = WordBytes
        /\ BytesLess(last.ea, last.eb)

C23_Witness ==
    /\ last.op = "Encode"
    /\ last.dataType = Int64Index
    /\ last.a = 0 - SignBit
    /\ last.b = SignBit - 1
    /\ BytesLess(last.ea, last.eb)

\* C24: the Float64 encoding preserves numeric order: for non-NaN values
\* a < b, encode(a) is byte-wise smaller than encode(b), and encode(-0.0)
\* immediately precedes encode(+0.0).
C24_Float64EncodingPreservesOrder ==
    (last.op = "Encode" /\ last.dataType = Float64Index) =>
        /\ (~IsNaN(last.a) /\ ~IsNaN(last.b) /\ FloatValue(last.a) < FloatValue(last.b))
              => BytesLess(last.ea, last.eb)
        /\ (last.a = SignBit /\ last.b = 0) => Uint(last.eb) = Uint(last.ea) + 1

C24_Witness ==
    /\ last.op = "Encode"
    /\ last.dataType = Float64Index
    /\ last.a = SignBit + 1
    /\ last.b = 1
    /\ FloatValue(last.a) < 0
    /\ FloatValue(last.b) > 0
    /\ BytesLess(last.ea, last.eb)

\* the instant of a time value, in hundredths of a second
Instant(t) == (t.hour * 3600 + t.sec) * 100 + t.cs

\* the capacity updateIndexes gives the buffer of a formatted time
MaxDateTimeLen == 35

\* C27: the DateTime encoding is order-preserving and of fixed format: for
\* instants t1 < t2, whatever their zones and fractional seconds, encode(t1)
\* is byte-wise smaller than encode(t2); two representations of one instant
\* in different zones encode identically; every encoding has the same length,
\* which does not exceed the fixed maximum.
C27_DateTimeEncodingPreservesOrder ==
    (last.op = "Encode" /\ last.dataType = DateTimeIndex) =>
        /\ Instant(last.a) < Instant(last.b) => BytesLess(last.ea, last.eb)
        /\ Instant(last.a) = Instant(last.b) => last.ea = last.eb
        /\ Len(last.ea) = Len(last.eb)
        /\ Len(last.ea) <= MaxDateTimeLen

\* the order of the property values of a data type; a NaN is below nothing
\* and nothing is below it
ValueLess(dataType, x, y) ==
    CASE dataType = StringIndex -> BytesLess(x, y)
      [] dataType = Int64Index -> x < y
      [] dataType = Float64Index ->
            ~IsNaN(x) /\ ~IsNaN(y) /\ FloatValue(x) < FloatValue(y)
      [] dataType = BoolIndex -> ~x /\ y
      [] dataType = DateTimeIndex -> Instant(x) < Instant(y)

\* C25: for a NonUnique index, iterating the index bucket in key order visits
\* the records in non-decreasing order of the indexed value, for every data
\* type: an entry whose key is smaller never holds the greater value.
C25_KeyOrderIsValueOrder ==
    (/\ last.op = "buildIndexKey"
     /\ last.indexType = NonUniqueIndex
     /\ BytesLess(last.ka, last.kb))
        => ~ValueLess(last.dataType, last.b, last.a)

-----------------------------------------------------------------------------
(* Properties of NonUnique index entries *)

\* the key of record m under a NonUnique index on property p
NonUniqueKey(m, p) == buildIndexKey(NonUniqueIndex, m[p], m.Id)

\* Put of m returned out: it succeeded, bucket b holds m's entry under the
\* NonUnique index on p, and every entry of another record that b held is
\* still there
NonUniqueEntryAdded(m, p, b, out) ==
    /\ out.err = "ok"
    /\ NonUniqueKey(m, p) \in DOMAIN out.db[b]
    /\ out.db[b][NonUniqueKey(m, p)] = IdString(m.Id)
    /\ \A k \in DOMAIN Entries(db, b) :
          db[b][k] # IdString(m.Id) =>
              k \in DOMAIN out.db[b] /\ out.db[b][k] = db[b][k]

\* C26: for a NonUnique index, putting a record whose indexed value other
\* records already hold never fails and leaves every entry present: the keys
\* of two entries are equal only if the encoded value and the identifier are
\* both equal, so the entry of one record never overwrites that of another.
C26_NonUniqueEntriesNeverCollide ==
    /\ \A m \in StampedRecords :
          \A i \in DOMAIN Indexes(Reg, m.Id[1]) :
              (/\ Indexes(Reg, m.Id[1])[i].Type = NonUniqueIndex
               /\ ~UniqueConflictIn(db, m))
                  => NonUniqueEntryAdded(
                         m, Indexes(Reg, m.Id[1])[i].PropertyName,
                         IndexBucket(m.TypeName, Indexes(Reg, m.Id[1])[i].PropertyName),
                         Put(Reg, db, m, TRUE))
    /\ \A m1, m2 \in StampedRecords : \A p \in PropertyNames :
          NonUniqueKey(m1, p) = NonUniqueKey(m2, p) => m1[p] = m2[p] /\ m1.Id = m2.Id

\* two records with the same Sku are stored and both have their entry under
\* a NonUnique index on Sku
C26_Witness ==
    /\ last.op \in {"Put", "PutAll"}
    /\ last.err = "ok"
    /\ \E i \in DOMAIN items : \E k \in DOMAIN items[i].Indexes :
          /\ items[i].Indexes[k].Type = NonUniqueIndex
          /\ items[i].Indexes[k].PropertyName = "Sku"
    /\ \E m1, m2 \in StampedRecords :
          /\ m1.Id # m2.Id
          /\ m1.Sku = m2.Sku
          /\ NonUniqueKey(m1, "Sku") \in DOMAIN Entries(db, IndexBucket("A", "Sku"))
          /\ NonUniqueKey(m2, "Sku") \in DOMAIN Entries(db, IndexBucket("A", "Sku"))

-----------------------------------------------------------------------------
(* Properties of the identifier text *)

\* C28: for every identifier (type_id, object_id) over the int64 range,
\* parsing its canonical text gives back the identifier: parse(render(id))
\* succeeds and equals id.
C28_ParseOfRenderIsIdentity ==
    (last.op = "IdFromString" /\ last.from # <<>>) =>
        /\ last.out.err = "ok"
        /\ last.out.id = last.from[1]

\* the bytes of s that are separators
Separators(s) == {i \in DOMAIN s : s[i] = DashByte}

\* the number a string of base-16 digits denotes
RECURSIVE HexNumber(_)
HexNumber(ds) ==
    IF ds = <<>> THEN 0
    ELSE HexNumber(SubSeq(ds, 1, Len(ds) - 1)) * 16 + DigitValue(ds[Len(ds)])

Unsigned(part) == IF part # <<>> /\ part[1] = 43 THEN Tail(part) ELSE part

\* a base-16 integer: an optional plus sign and at least one digit, denoting
\* a number of the int64 range (a minus sign cannot be told from a separator)
ValidHexInteger(part) ==
    /\ Unsigned(part) # <<>>
    /\ \A i \in DOMAIN Unsigned(part) : DigitValue(Unsigned(part)[i]) >= 0
    /\ HexNumber(Unsigned(part)) <= MaxInt64

WellFormedIdText(s) ==
    /\ Cardinality(Separators(s)) = 1
    /\ \E i \in Separators(s) :
          /\ ValidHexInteger(SubSeq(s, 1, i - 1))
          /\ ValidHexInteger(SubSeq(s, i + 1, Len(s)))

\* C29: parsing a string that does not have exactly one '-' separator, or
\* whose left or right part is not a valid hexadecimal integer, returns a
\* malformed-identifier error and no identifier; the parse of a well-formed
\* string returns the identifier its parts denote.
C29_MalformedTextIsRejected ==
    last.op = "IdFromString" =>
        IF WellFormedIdText(last.s)
        THEN last.out.err = "ok" /\ last.out.id # NilId
        ELSE /\ last.out.err \in {"ErrInvalidIdFormat", "ErrInvalidTypeId",
                                  "ErrInvalidObjectId"}
             /\ last.out.id = NilId

\* a string of the longest length with one separator, whose right part is
\* a number beyond the int64 range, has been rejected
C29_Witness ==
    /\ last.op = "IdFromString"
    /\ last.from = <<>>
    /\ Cardinality(Separators(last.s)) = 1
    /\ last.s[1] = 49
    /\ last.out.err = "ErrInvalidObjectId"
    /\ last.s[Len(last.s)] = 102
    /\ Len(last.s) = MaxIdTextLen

-----------------------------------------------------------------------------
(* Properties of the two lookups after Load *)

\* the type ids and the names a caller may look up
QueriedTypeIds ==
    {REGISTRY_INFO_TYPE_ID, REGISTRY_ITEM_TYPE_ID} \cup DOMAIN typeIdIndex
        \cup {info[1].NextTypeId : i \in DOMAIN info}

QueriedNames ==
    {REGISTRY_INFO_TYPE_NAME, REGISTRY_ITEM_TYPE_NAME} \cup TypeNames

\* type_id_for(type_name_for(t)) = t for every id whose name is found
IdOfNameOf(ids) ==
    \A t \in ids :
        GetTypeName(Reg, t) # <<>> =>
            GetTypeId(Reg, GetTypeName(Reg, t)[1]) = <<t>>

\* type_name_for(type_id_for(n)) = n for every name whose id is found
NameOfIdOf(names) ==
    \A n \in names :
        GetTypeId(Reg, n) # <<>> =>
            GetTypeName(Reg, GetTypeId(Reg, n)[1]) = <<n>>

\* C30: after a Load that returned nil the two lookups are inverse of each
\* other: for every type id t whose name is found, the reserved ids 1 and 2
\* included, the id of that name is t, and for every name n whose id is found
\* the name of that id is n.
C30_LookupsAreInverse ==
    (last.op = "Load" /\ last.err = "ok") =>
        /\ IdOfNameOf(QueriedTypeIds)
        /\ NameOfIdOf(QueriedNames)

-----------------------------------------------------------------------------
(* Properties of the registry lock *)

\* c is inside Load or AllocateId, waiting for the lock or holding it
InRegistryCall(c) == pc[c] # "idle" /\ loc[c].op \in {"Load", "AllocateId"}

\* C31: every call of Load and every call of AllocateId made by a single
\* caller with no other activity eventually ends with the registry lock
\* released: no store operation it invokes while it holds r.mu waits for r.mu.
C31_LoadAndAllocateIdReturn ==
    \A c \in Callers : InRegistryCall(c) ~> (pc[c] = "idle" /\ mu = <<>>)

\* c is inside Put, called by the application or by AllocateId
InPutOrAllocateId(c) == pc[c] # "idle" /\ loc[c].op \in {"Put", "AllocateId"}

\* C32: no interleaving of concurrent Put calls with concurrent AllocateId
\* calls blocks forever: every such call eventually returns.
C32_PutAndAllocateIdReturn ==
    \A c \in Callers : InPutOrAllocateId(c) ~> (pc[c] = "idle")

-----------------------------------------------------------------------------
(* Properties of Load after a crash *)

\* the Registry Items persisted in store d, by key
ItemsIn(d) ==
    IF "Type.RegistryItem" \in DOMAIN d THEN d["Type.RegistryItem"] ELSE EmptyBucket

\* no type id held by a persisted Registry Item is assigned to another name
TypeIdKeepsName ==
    \A i \in DOMAIN items : \A p \in PersistedItems :
        items[i].TypeId = p.typeId => items[i].TypeName = p.typeName

\* no step stores a Registry Item of another type under the identifier of a
\* persisted one
PersistedItemKept ==
    \A k \in DOMAIN ItemsIn(db) :
        /\ k \in DOMAIN ItemsIn(db')
        /\ ItemsIn(db')[k].typeName = ItemsIn(db)[k].typeName
        /\ ItemsIn(db')[k].typeId = ItemsIn(db)[k].typeId

\* C33: whatever the point at which a Load ended in its allocation of a new
\* type (in particular between the Put of the new Registry Item and the Put
\* of the updated Registry Info), a later Load on the same store never assigns
\* a type id held by a persisted Registry Item to a different type name and
\* never stores a new Registry Item under the identifier of an existing one.
C33_CrashedLoadLeavesTypeIdsTaken == []TypeIdKeepsName /\ [][PersistedItemKept]_vars

-----------------------------------------------------------------------------
(* Properties of Unique indexes *)

\* the stored value of the property in the record under key k of type n
StoredValue(n, k, propertyName) ==
    db[PrimaryBucket(n)][k][IF propertyName = "Sku" THEN "sku" ELSE "tag"]

\* the properties on which the registry declares a Unique index for item i
UniqueProperties(i) ==
    {items[i].Indexes[j].PropertyName :
        j \in {j \in DOMAIN items[i].Indexes : items[i].Indexes[j].Type = UniqueIndex}}

\* C34: for a Unique index declared before any record of the type is stored,
\* in every state reached by any interleaving of Put and Delete calls no two
\* distinct stored records of the type have the same value of the indexed
\* property.
C34_UniqueValuesAreUnique ==
    \A i \in DOMAIN items : \A p \in UniqueProperties(i) :
        \A k1, k2 \in StoredKeys(items[i].TypeName) :
            StoredValue(items[i].TypeName, k1, p) = StoredValue(items[i].TypeName, k2, p)
                => k1 = k2

\* a stored record other than m holds m's value of a property on which m's
\* type has a Unique index
HeldByAnother(m) ==
    \E i \in DOMAIN items :
        /\ items[i].TypeId = m.Id[1]
        /\ \E p \in UniqueProperties(i) :
              \E k \in StoredKeys(items[i].TypeName) \ {IdString(m.Id)} :
                  StoredValue(items[i].TypeName, k, p) = m[p]

\* C35: Put(m) fails with the uniqueness violation only if a different
\* record that is stored at the time of the call has m's value of the
\* Unique-indexed property: a value its former holder gave up can be taken.
C35_UniqueViolationOnlyForHeldValue ==
    \A m \in StampedRecords :
        Put(Reg, db, m, TRUE).err = "ErrUniqueIndexConstraintViolation"
            => HeldByAnother(m)

-----------------------------------------------------------------------------
(* Properties of index completeness *)

\* the entry a stored record must have in the index of definition def
HasEntry(n, k, def) ==
    /\ IndexBucket(n, def.PropertyName) \in DOMAIN db
    /\ buildIndexKey(def.Type, StoredValue(n, k, def.PropertyName),
                     db[PrimaryBucket(n)][k].id)
           \in DOMAIN db[IndexBucket(n, def.PropertyName)]
    /\ db[IndexBucket(n, def.PropertyName)][
           buildIndexKey(def.Type, StoredValue(n, k, def.PropertyName),
                         db[PrimaryBucket(n)][k].id)] = k

\* C36: in every state reached by Put, PutAll and Delete on a type whose
\* indexes were declared before Load, every stored record has, in each index
\* bucket of its type, an entry under the key built from its current value
\* that maps to its identifier.
C36_EveryStoredRecordIsIndexed ==
    \A i \in DOMAIN items :
        \A k \in StoredKeys(items[i].TypeName) :
            \A j \in DOMAIN items[i].Indexes :
                HasEntry(items[i].TypeName, k, items[i].Indexes[j])

-----------------------------------------------------------------------------
(* Properties of the index definitions after Load *)

Defs(s) == {s[j] : j \in DOMAIN s}

\* the registry a Load of the present process returns
AfterLoad == Load(Reg, db, NoFailure).r

\* the list the present process declared for item i is a part of what
\* Indexes answers for the item's type id after Load
DeclaredAreServed(i) ==
    Defs(items[i].Indexes) \subseteq Defs(Indexes(AfterLoad, AfterLoad.items[i].TypeId))

\* C37: after Load, Indexes answers for a type every definition that Index
\* declared for it before Load, also when an item of that name was persisted
\* by an earlier process with another list; and Indexes of a type id that is
\* not registered answers the empty list.
C37_DeclaredIndexesAreServed ==
    /\ ~Loaded /\ Load(Reg, db, NoFailure).res = "ok"
          => \A i \in DOMAIN items : DeclaredAreServed(i)
    /\ \A t \in QueriedTypeIds : t \notin DOMAIN typeIdIndex => Indexes(Reg, t) = <<>>

-----------------------------------------------------------------------------
(* Properties of a repeated Put *)

PutAgain(m) == Put(Reg, Put(Reg, db, m, TRUE).db, m, TRUE)

\* C38: a Put of a record that a Put has just stored, with the same
\* identifier and the same values, succeeds (the record's own Unique entry
\* is no conflict) and leaves the primary bucket and every index bucket as
\* the first Put left them.
C38_PutIsIdempotent ==
    \A m \in StampedRecords :
        Put(Reg, db, m, TRUE).err = "ok"
            => PutAgain(m) = [err |-> "ok", db |-> Put(Reg, db, m, TRUE).db]

\* a record with a Unique entry of its own was put and a second Put of it
\* finds the store as it is
C38_Witness ==
    /\ last = [op |-> "Put", err |-> "ok"]
    /\ \E m \in StampedRecords :
          /\ \E i \in DOMAIN items :
                /\ items[i].TypeId = m.Id[1]
                /\ "Sku" \in UniqueProperties(i)
                /\ IdString(m.Id) \in StoredKeys(items[i].TypeName)
                /\ db[IndexBucket(items[i].TypeName, "Sku")][m.Sku] = IdString(m.Id)
          /\ Put(Reg, db, m, TRUE) = [err |-> "ok", db |-> db]

-----------------------------------------------------------------------------
(* Properties of the bucket names *)

\* the buckets AllocateBucketIfNeeded creates for the two meta-types
ReservedBuckets ==
    {"Type." \o REGISTRY_INFO_TYPE_NAME, "Type." \o REGISTRY_ITEM_TYPE_NAME}

PrimaryIsNoIndexBucket ==
    last.op = "BucketNames" => last.primary1 # last.index2 /\ last.primary1 # last.index1

IndexBucketsDiffer ==
    last.op = "BucketNames" /\ <<last.n1, last.p1>> # <<last.n2, last.p2>>
        => last.index1 # last.index2

PrimaryIsNotReserved ==
    last.op = "BucketNames" => last.primary1[1] \notin ReservedBuckets

\* C39: the primary bucket name of a type differs from every index bucket
\* name, two different (type name, property name) pairs never have the same
\* index bucket name, and the primary bucket of a registered type is never
\* the bucket of a meta-type.
C39_BucketNamesNeverCollide ==
    PrimaryIsNoIndexBucket /\ IndexBucketsDiffer /\ PrimaryIsNotReserved

====
